---- MODULE Spec2Model ----
(***************************************************************************)
(* A model of the MONAD-MCP service layer: the JSON-safety normaliser of   *)
(* app/core/utils.py and the request/response handlers of                  *)
(* app/services/*.py, one invocation at a time, against external servers   *)
(* (JSON-RPC node, Magic Eden, Zerion, Thirdweb Insight) that answer each  *)
(* request with any response of a bounded set.                             *)
(***************************************************************************)
EXTENDS Integers, Sequences, FiniteSets, TLC

(***************************************************************************)
(* Bounds of the model.                                                    *)
(***************************************************************************)
\* nesting depth of the values handed to attrdict_to_dict
MaxDepth == 3
\* pages a server may answer with that make a pagination loop go on
MaxPages == 2

(***************************************************************************)
(* Python values.  A value is a record [t, v]: t the Python type, v the    *)
(* payload.  Python integers are unbounded; the model keeps them exact in  *)
(* two decimal limbs, magnitude = hi * 10^8 + lo, with a sign.             *)
(***************************************************************************)
LimbBase == 10^8

PyNone == [t |-> "none", v |-> 0]
PyBool(b) == [t |-> "bool", v |-> b]
PyStr(s) == [t |-> "str", v |-> s]
PyInt(neg, hi, lo) == [t |-> "int", v |-> [neg |-> neg, hi |-> hi, lo |-> lo]]
PyBytes(h) == [t |-> "bytes", v |-> h]
PyHexBytes(h) == [t |-> "hexbytes", v |-> h]
PyList(s) == [t |-> "list", v |-> s]
PyTuple(s) == [t |-> "tuple", v |-> s]
PyDict(f) == [t |-> "dict", v |-> f]

\* n + n on the limb representation (n.v of an int)
Double(n) ==
    [neg |-> n.neg,
     hi |-> 2 * n.hi + ((2 * n.lo) \div LimbBase),
     lo |-> (2 * n.lo) % LimbBase]

RECURSIVE Pow2(_)
\* 2 ** k
Pow2(k) == IF k = 0 THEN [neg |-> FALSE, hi |-> 0, lo |-> 1] ELSE Double(Pow2(k - 1))

\* the threshold 2**53 of utils.py:17 and monad_service.py:226,231
TwoPow53 == Pow2(53)

MagGt(a, b) == a.hi > b.hi \/ (a.hi = b.hi /\ a.lo > b.lo)

\* Python's a > b on integers
IntGt(a, b) ==
    IF a.neg # b.neg THEN b.neg
    ELSE IF a.neg THEN MagGt(b, a) ELSE MagGt(a, b)

Digit(d) ==
    CASE d = 0 -> "0" [] d = 1 -> "1" [] d = 2 -> "2" [] d = 3 -> "3" [] d = 4 -> "4"
      [] d = 5 -> "5" [] d = 6 -> "6" [] d = 7 -> "7" [] d = 8 -> "8" [] d = 9 -> "9"

RECURSIVE Decimal(_)
\* the decimal digits of a natural number, no leading zeros
Decimal(n) == IF n < 10 THEN Digit(n) ELSE Decimal(n \div 10) \o Digit(n % 10)

RECURSIVE Padded(_, _)
\* the decimal digits of n, zero-padded on the left to w digits
Padded(n, w) == IF w = 0 THEN "" ELSE Padded(n \div 10, w - 1) \o Digit(n % 10)

\* Python's str(n) for an integer
IntStr(n) ==
    (IF n.neg THEN "-" ELSE "")
        \o (IF n.hi = 0 THEN Decimal(n.lo) ELSE Decimal(n.hi) \o Padded(n.lo, 8))

\* HexBytes.hex(): the 0x-prefixed hex digits (the repository compares it with '0x')
HexOf(h) == "0x" \o h

(***************************************************************************)
(* app/core/utils.py                                                       *)
(***************************************************************************)
\* a plausible slip at the boundary: >= in place of >
IsLargeInt_AtLeast(x) == x.t = "int" /\ ~IntGt(TwoPow53, x.v)

\* isinstance(attr_dict, int) and attr_dict > 2**53
IsLargeInt(x) == x.t = "int" /\ IntGt(x.v, TwoPow53)

RECURSIVE attrdict_to_dict(_)
attrdict_to_dict(x) ==
    CASE x.t = "hexbytes" -> PyStr(HexOf(x.v))
      [] x.t = "dict" -> PyDict([k \in DOMAIN x.v |-> attrdict_to_dict(x.v[k])])
      [] x.t = "list" -> PyList([i \in DOMAIN x.v |-> attrdict_to_dict(x.v[i])])
      [] IsLargeInt(x) -> PyStr(IntStr(x.v))
      [] OTHER -> x

(***************************************************************************)
(* Values a node can answer with.                                          *)
(***************************************************************************)
IntLeaves ==
    { PyInt(FALSE, 0, 0), PyInt(FALSE, 0, 7),
      PyInt(FALSE, 90071992, 54740991),     \* 2**53 - 1
      PyInt(FALSE, 90071992, 54740992),     \* 2**53
      PyInt(FALSE, 90071992, 54740993),     \* 2**53 + 1
      PyInt(FALSE, 1000000000, 5),          \* 10**17 + 5
      PyInt(TRUE, 0, 7),
      PyInt(TRUE, 90071992, 54740993) }     \* -(2**53 + 1)

Leaves ==
    IntLeaves \cup { PyNone, PyBool(TRUE), PyStr("latest"), PyHexBytes("ab12"), PyBytes("cd") }

\* the siblings a container is filled up with
Siblings == { PyInt(FALSE, 1000000000, 5), PyStr("latest") }

RECURSIVE Depth(_)
Depth(x) ==
    IF x.t \in {"list", "tuple", "dict"}
    THEN 1 + (IF DOMAIN x.v = {} THEN 0
              ELSE LET ds == { Depth(x.v[k]) : k \in DOMAIN x.v }
                   IN CHOOSE d \in ds : \A e \in ds : e <= d)
    ELSE 0


(***************************************************************************)
(* State.                                                                  *)
(***************************************************************************)
VARIABLES
    node_value,     \* the value under conversion (the AttributeDict of utils.py)
    converted,      \* the result of attrdict_to_dict, or Unset
    environ,        \* os.environ: which credentials are set
    w3_instance,    \* app.core.web3_setup.w3_instance
    w3,             \* the module-level `w3` of each service module
    op,             \* the operation being executed, or "none"
    args,           \* its arguments
    pc,             \* where the operation stands
    loc,            \* its local variables
    outcome,        \* what it returned or raised
    events,         \* observer: the requests, responses and sleeps of this invocation
    outstanding,    \* observer: requests issued and not yet answered
    validated,      \* observer: every argument check of the operation has passed
    saved,          \* observer: one earlier invocation, kept for comparison
    process,        \* the server process: how it was launched and how far its start has come
    mode            \* which observer watches: "trace" (Spec), "pair" (SpecPair), "live" (LiveSpec)

normVars == <<node_value, converted>>
persistent == <<environ, w3_instance, w3, process>>
callVars == <<op, args, pc, loc, outcome>>
observers == <<events, outstanding, validated, saved>>
vars == <<node_value, converted, environ, w3_instance, w3, op, args, pc, loc, outcome,
          events, outstanding, validated, saved, process, mode>>

Unset == [t |-> "unset", v |-> 0]

\* the process before mcp_server.py has run any of its statements; the services
\* are modelled by themselves from this state
NotStarted ==
    [stage |-> "load", launch |-> "import", check |-> 1, warnings |-> {},
     tools |-> {}, status |-> "running"]

None == "None"
W3 == "W3"
Modules == {"monad_service", "magic_eden_service", "zerion_service"}

Errors == {"ValueError", "ConnectionError", "FileNotFoundError", "TypeError"}
NoOutcome == [kind |-> "none", val |-> <<>>]

\* Python truthiness of a value: `not x`
Falsy(x) ==
    \/ x.t = "none"
    \/ x.t = "bool" /\ ~x.v
    \/ x.t = "str" /\ x.v = ""
    \/ x.t \in {"list", "tuple"} /\ Len(x.v) = 0
    \/ x.t = "dict" /\ DOMAIN x.v = {}
    \/ x.t = "int" /\ x.v.hi = 0 /\ x.v.lo = 0

(***************************************************************************)
(* Addresses: w3.to_checksum_address and str.lower on the strings the      *)
(* model uses.                                                             *)
(***************************************************************************)
ChecksumTable ==
    ("0xabc1" :> "0xAbC1") @@ ("0xAbC1" :> "0xAbC1")
        @@ ("0xaa11" :> "0xAa11") @@ ("0xbb22" :> "0xBb22")

LowerTable ==
    ("0xAA11" :> "0xaa11") @@ ("0xbb22" :> "0xbb22") @@ ("junk" :> "junk")
        @@ ("latest" :> "latest") @@ ("Latest" :> "latest") @@ ("pending" :> "pending")
        @@ ("12" :> "12") @@ ("-5" :> "-5") @@ ("0x1f" :> "0x1f")
        @@ ("desc" :> "desc") @@ ("ASC" :> "asc") @@ ("up" :> "up")
        @@ ("1d" :> "1d") @@ ("7D" :> "7d") @@ ("2d" :> "2d")
        @@ ("sales" :> "sales") @@ ("Volume" :> "volume") @@ ("price" :> "price")

\* str.lower()
Lower(s) == LowerTable[s]

\* w3.to_checksum_address(a) succeeds
IsAddress(a) == a \in DOMAIN ChecksumTable
to_checksum_address(a) == ChecksumTable[a]

AddressArgs == {"0xabc1", "nothex"}

(***************************************************************************)
(* Observers.                                                              *)
(***************************************************************************)
\* what the observer of the mode writes down: everything in "trace", requests and
\* responses in "pair", nothing in "live"
Observed(e) == mode = "trace" \/ (mode = "pair" /\ e.k # "sleep")
LogAll(es) == events \o SelectSeq(es, Observed)
Log(e) == LogAll(<<e>>)

ReqEvent(api, url, params) ==
    [k |-> "req", api |-> api, url |-> url, params |-> params, validated |-> validated]
RespEvent(r) == [k |-> "resp", r |-> r]
SleepEvent(ms) == [k |-> "sleep", ms |-> ms, site |-> "page"]

\* the request leaves: one more outstanding
Issue(api, url, params) ==
    /\ events' = Log(ReqEvent(api, url, params))
    /\ outstanding' = outstanding + 1

\* the answer r arrives
Answer(r) ==
    /\ events' = Log(RespEvent(r))
    /\ outstanding' = outstanding - 1

Raise(exc) == outcome' = [kind |-> exc, val |-> <<>>] /\ pc' = "done"
Return(v) == outcome' = [kind |-> "return", val |-> v] /\ pc' = "done"
Goto(l) == pc' = l /\ UNCHANGED outcome

(***************************************************************************)
(* The locals of a handler and the arguments of the model.                 *)
(***************************************************************************)
\* a local no assignment has reached yet
Unbound == [t |-> "unbound", v |-> 0]

FreshLocals ==
    [url |-> None, page_num |-> 1, current_offset |-> 0, acc |-> <<>>,
     sent_to |-> Unbound, interacted |-> <<>>, total |-> 0,
     checked |-> 0, contracts |-> <<>>, abi |-> PyNone, checksum_address |-> None]

\* a container that outlives the call, as a module-level cache would
EnterLocals_Kept(previous) == [FreshLocals EXCEPT !.contracts = previous.contracts]

\* the locals of a handler when it is entered: nothing of the call before
EnterLocals(previous) == FreshLocals

TxHashes ==
    { [prefix |-> "0x", len |-> 66], [prefix |-> "0x", len |-> 64],
      [prefix |-> "zz", len |-> 66] }

BlockIdentifiers ==
    { PyStr("latest"), PyStr("Latest"), PyStr("12"), PyStr("-5"), PyStr("0x1f"),
      PyInt(FALSE, 0, 12), PyInt(TRUE, 0, 5), PyNone }

ModuleOf(o) ==
    CASE o \in {"get_transaction", "get_block", "read_contract", "get_balance"}
            -> "monad_service"
      [] o \in {"get_nft_collection_stats", "get_nft_activity", "get_user_nft_activity",
                "get_trending_collections"}
            -> "magic_eden_service"
      [] o \in {"get_contract_interactions", "get_monad_erc20_balances",
                "get_user_nft_transactions"}
            -> "zerion_service"
      [] OTHER -> "insight_service"

(***************************************************************************)
(* The connection gate of monad_service and of                             *)
(* zerion_service.get_contract_interactions:                               *)
(*     global w3                                                           *)
(*     if not w3 or not w3.is_connected(): w3 = get_w3()                   *)
(*     if not w3 or not w3.is_connected(): raise ConnectionError(...)      *)
(* w3.is_connected() is a request to the node.                             *)
(***************************************************************************)
GateOps == {"get_transaction", "get_block", "read_contract", "get_contract_interactions"}

\* `w3 = get_w3()`, then the second test up to its probe
GateSecondTest(m) ==
    /\ w3' = [w3 EXCEPT ![m] = w3_instance]
    /\ IF w3_instance = None
       THEN /\ Raise("ConnectionError")
            /\ UNCHANGED <<events, outstanding>>
       ELSE /\ Issue("rpc", "is_connected", <<>>)
            /\ Goto("probe2")

GateEnter ==
    /\ pc = "entry"
    /\ op \in GateOps
    /\ LET m == ModuleOf(op) IN
          IF w3[m] = None
          THEN GateSecondTest(m)
          ELSE /\ Issue("rpc", "is_connected", <<>>)
               /\ Goto("probe1")
               /\ UNCHANGED w3
    /\ UNCHANGED <<normVars, environ, w3_instance, process, op, args, loc, validated, saved, mode>>

GateProbe1 ==
    /\ pc = "probe1"
    /\ \E connected \in BOOLEAN :
          IF connected
          THEN /\ Answer(PyBool(TRUE))
               /\ Goto("validate")
               /\ UNCHANGED w3
          ELSE \* the answer, then `w3 = get_w3()` and the second probe
               /\ w3' = [w3 EXCEPT ![ModuleOf(op)] = w3_instance]
               /\ IF w3_instance = None
                  THEN /\ Answer(PyBool(FALSE))
                       /\ Raise("ConnectionError")
                  ELSE /\ events' = LogAll(<<RespEvent(PyBool(FALSE)),
                                             ReqEvent("rpc", "is_connected", <<>>)>>)
                       /\ UNCHANGED outstanding
                       /\ Goto("probe2")
    /\ UNCHANGED <<normVars, environ, w3_instance, process, op, args, loc, validated, saved, mode>>

GateProbe2 ==
    /\ pc = "probe2"
    /\ \E connected \in BOOLEAN :
          /\ Answer(PyBool(connected))
          /\ IF connected THEN Goto("validate") ELSE Raise("ConnectionError")
    /\ UNCHANGED <<normVars, persistent, op, args, loc, validated, saved, mode>>

(***************************************************************************)
(* monad_service.get_transaction                                           *)
(***************************************************************************)
\* the answers of the node to eth_getTransactionByHash / eth_getBlockByNumber
NodeResults ==
    { PyDict([value |-> PyInt(FALSE, 90071992, 54740993), hash |-> PyHexBytes("ab12")]),
      PyDict([value |-> PyInt(FALSE, 0, 7),
              accessList |-> PyList(<<PyDict([storageKeys |-> PyList(<<PyHexBytes("ab12")>>)])>>)]),
      PyDict([value |-> PyInt(TRUE, 90071992, 54740993), hash |-> PyHexBytes("ab12")]),
      PyDict([value |-> PyInt(FALSE, 0, 7), input |-> PyBytes("cd")]),
      PyDict([value |-> PyInt(FALSE, 0, 7),
              topics |-> PyTuple(<<PyHexBytes("ab12"), PyInt(FALSE, 1000000000, 5)>>)]) }

NodeAnswers ==
    { [kind |-> "none"], [kind |-> "notfound"], [kind |-> "error"] }
        \cup { [kind |-> "ok", body |-> v] : v \in NodeResults }

\* not tx_hash.startswith('0x') or len(tx_hash) != 66
BadTxHash(h) == h.prefix # "0x" \/ h.len # 66

GetTransaction_Validate ==
    /\ pc = "validate"
    /\ op = "get_transaction"
    /\ IF BadTxHash(args.tx_hash)
       THEN /\ Raise("ValueError")
            /\ UNCHANGED <<events, outstanding, validated>>
       ELSE /\ validated' = TRUE
            /\ events' = Log([ReqEvent("rpc", "eth.get_transaction", <<>>) EXCEPT !.validated = TRUE])
            /\ outstanding' = outstanding + 1
            /\ Goto("await")
    /\ UNCHANGED <<normVars, persistent, op, args, loc, saved, mode>>

\* the try block of get_transaction/get_block once the node has answered:
\* `raise FileNotFoundError` for None sits inside the try and is caught by
\* `except Exception`, which raises ConnectionError in its place
LookupResult(r) ==
    CASE r.kind = "none" -> [kind |-> "ConnectionError", val |-> <<>>]
      [] r.kind = "notfound" -> [kind |-> "FileNotFoundError", val |-> <<>>]
      [] r.kind = "error" -> [kind |-> "ConnectionError", val |-> <<>>]
      [] r.kind = "ok" -> [kind |-> "return", val |-> attrdict_to_dict(r.body)]

GetTransaction_Response ==
    /\ pc = "await"
    /\ op = "get_transaction"
    /\ \E r \in NodeAnswers :
          /\ Answer(r)
          /\ outcome' = LookupResult(r)
    /\ pc' = "done"
    /\ UNCHANGED <<normVars, persistent, op, args, loc, validated, saved, mode>>

(***************************************************************************)
(* monad_service.get_block                                                 *)
(***************************************************************************)
\* int(s) for the strings of the model; the others raise ValueError
ParseInt(s) ==
    CASE s = "12" -> [ok |-> TRUE, n |-> 12]
      [] s = "-5" -> [ok |-> TRUE, n |-> -5]
      [] OTHER -> [ok |-> FALSE, n |-> 0]

\* the block id the identifier parses to, or the exception raised
\* (`assert block_id >= 0` fails into the ValueError of the except clause)
ParseBlockIdentifier(b) ==
    IF b.t = "str"
    THEN IF Lower(b.v) \in {"latest", "earliest", "pending"}
         THEN [ok |-> TRUE, id |-> PyStr(Lower(b.v))]
         ELSE IF ParseInt(b.v).ok /\ ParseInt(b.v).n >= 0
              THEN [ok |-> TRUE, id |-> PyInt(FALSE, 0, ParseInt(b.v).n)]
              ELSE [ok |-> FALSE, exc |-> "ValueError"]
    ELSE IF b.t = "int"
         THEN IF b.v.neg
              THEN [ok |-> FALSE, exc |-> "ValueError"]
              ELSE [ok |-> TRUE, id |-> b]
         ELSE [ok |-> FALSE, exc |-> "TypeError"]

GetBlock_Validate ==
    /\ pc = "validate"
    /\ op = "get_block"
    /\ LET parsed == ParseBlockIdentifier(args.block_identifier) IN
          IF ~parsed.ok
          THEN /\ Raise(parsed.exc)
               /\ UNCHANGED <<events, outstanding, validated>>
          ELSE /\ validated' = TRUE
               /\ events' = Log([ReqEvent("rpc", "eth.get_block", <<parsed.id>>)
                                    EXCEPT !.validated = TRUE])
               /\ outstanding' = outstanding + 1
               /\ Goto("await")
    /\ UNCHANGED <<normVars, persistent, op, args, loc, saved, mode>>

GetBlock_Response ==
    /\ pc = "await"
    /\ op = "get_block"
    /\ \E r \in NodeAnswers :
          /\ Answer(r)
          /\ outcome' = LookupResult(r)
    /\ pc' = "done"
    /\ UNCHANGED <<normVars, persistent, op, args, loc, validated, saved, mode>>

(***************************************************************************)
(* HTTP.  A request is answered by a network error (httpx.RequestError),   *)
(* an error status (raise_for_status), a body that is no JSON, or a JSON   *)
(* body.                                                                   *)
(***************************************************************************)
HttpFailures ==
    { [kind |-> "neterr"], [kind |-> "status", code |-> 500], [kind |-> "badjson"] }
Ok(body) == [kind |-> "ok", body |-> body]

\* a JSON body that is no object
NotAnObject == PyList(<<"x">>)
\* a JSON object without any of the keys the handlers read
OtherObject == PyDict([message |-> PyStr("rate limited")])

\* d.get(k, default) on a dict
Get(d, k, default) == IF k \in DOMAIN d.v THEN d.v[k] ELSE default
EmptyDict == [t |-> "dict", v |-> <<>>]
EmptyList == PyList(<<>>)

\* page_limit of get_nft_collection_stats
PageLimit == 100

\* what the body of a pagination loop decides after one response
Continue(l) == [next |-> "sleep", loc |-> l]
Finish(l, v) == [next |-> "return", loc |-> l, val |-> v]
Fail(l, e) == [next |-> "raise", loc |-> l, exc |-> e]
ThenCheck(l) == [next |-> "check", loc |-> l]

\* page_num += 1; the model lets the counter rest once it is past every bound
\* (the code only asks whether page_num == 1)
NextPageNum(n) == IF n > MaxPages THEN n ELSE n + 1

\* a server is bounded in the pages it answers with that make the loop go on;
\* in "live" mode it may go on for ever with pages that add nothing
PageBudget == IF mode = "pair" THEN MaxPages - 1 ELSE MaxPages
MayContinue(l) ==
    IF op = "get_nft_collection_stats"
    THEN loc.current_offset < PageBudget * PageLimit
    ELSE \/ loc.page_num <= PageBudget
         \/ /\ mode = "live"
            /\ l = [loc EXCEPT !.url = l.url, !.page_num = l.page_num]

PagedOps ==
    {"get_nft_collection_stats", "get_nft_activity", "get_monad_erc20_balances",
     "get_contract_interactions", "get_user_nft_transactions"}

ApiOf(o) ==
    CASE o \in {"get_nft_collection_stats", "get_nft_activity", "get_user_nft_activity",
                "get_trending_collections"}
            -> "magiceden"
      [] o \in {"get_contract_interactions", "get_monad_erc20_balances",
                "get_user_nft_transactions"} -> "zerion"
      [] OTHER -> "insight"

\* the handler's first URL
Endpoint(o) ==
    CASE o = "get_nft_collection_stats" -> "/users/{address}/collections/v3"
      [] o = "get_nft_activity" -> "/tokens/{address}:{token_id}/activity/v5"
      [] o = "get_user_nft_activity" -> "/users/activity/v6"
      [] o = "get_monad_erc20_balances" -> "wallets/{address}/positions"
      [] o = "get_contract_interactions" -> "wallets/{address}/transactions"
      [] o = "get_user_nft_transactions" -> "wallets/{address}/transactions"
      [] o = "get_trending_collections" -> "/collections/trending/v1"
      [] o = "get_abi_from_insight" -> "/v1/contracts/abi/{address}"
      [] OTHER -> "/v1/wallets/{address}/transactions"

\* a mistake the handlers could make: the query parameters on every page
FirstPageOnly_Always(page_num, params) == <<params>>

\* `params_to_send = initial_params if page_num == 1 else None`
FirstPageOnly(page_num, params) == IF page_num = 1 THEN <<params>> ELSE <<>>

\* the query parameters of the next page request
PageParams(o, l, a) ==
    CASE o = "get_nft_collection_stats" ->
            <<[limit |-> PageLimit, offset |-> l.current_offset]>>
      [] o = "get_nft_activity" ->
            FirstPageOnly(l.page_num, [limit |-> 20, sortBy |-> "eventTimestamp",
                                       includeMetadata |-> TRUE])
      [] o = "get_monad_erc20_balances" ->
            FirstPageOnly(l.page_num, [chain_ids |-> "monad-test-v2", size |-> 100,
                                       positions |-> "no_filter"])
      [] o = "get_contract_interactions" ->
            FirstPageOnly(l.page_num, [chain_ids |-> "monad-test-v2", size |-> 100])
      [] o = "get_user_nft_transactions" ->
            FirstPageOnly(l.page_num, [chain_ids |-> "monad-test-v2",
                                       size |-> a.limit_per_page, asset_types |-> "nft"])

\* `response = await client.get(url, headers=headers, params=params)`: the request leaves
SendPage ==
    /\ pc = "req"
    /\ op \in PagedOps
    /\ Issue(ApiOf(op), loc.url, PageParams(op, loc, args))
    /\ Goto("await")
    /\ UNCHANGED <<normVars, persistent, op, args, loc, validated, saved, mode>>

\* the pause of the page loops, in milliseconds
PageSleepMs == 500

\* a loop body that leaves the pause out
Sleep_Skipped ==
    /\ pc = "sleep"
    /\ Goto("req")
    /\ UNCHANGED <<normVars, persistent, op, args, loc, events, outstanding, validated,
                   saved, mode>>

\* `await asyncio.sleep(0.5)` at the end of a loop body
Sleep ==
    /\ pc = "sleep"
    /\ events' = Log(SleepEvent(PageSleepMs))
    /\ Goto("req")
    /\ UNCHANGED <<normVars, persistent, op, args, loc, outstanding, validated, saved, mode>>

\* the response r to a page request arrives and the rest of the loop body, which
\* decides s, runs
PageArrives(r, s) ==
    /\ s.next = "sleep" => MayContinue(s.loc)
    /\ Answer(r)
    /\ loc' = s.loc
    /\ CASE s.next = "sleep" -> Goto("sleep")
         [] s.next = "check" -> Goto("check")
         [] s.next = "return" -> Return(s.val)
         [] s.next = "raise" -> Raise(s.exc)

\* a handler that goes on without its credential
CommonChecks_NoKey(key, handle, address) ==
    IF handle = None THEN "ConnectionError"
    ELSE IF ~IsAddress(address) THEN "ValueError"
    ELSE "ok"

\* the argument checks all handlers but the gated ones start with:
\* credential, Web3 handle, address
CommonChecks(key, handle, address) ==
    IF ~environ[key] THEN "ValueError"
    ELSE IF handle = None THEN "ConnectionError"
    ELSE IF ~IsAddress(address) THEN "ValueError"
    ELSE "ok"

(***************************************************************************)
(* magic_eden_service.get_nft_collection_stats: offset/limit pages         *)
(***************************************************************************)
\* a full page of collections, and short ones
FullPage(tag) == [i \in 1..PageLimit |-> 1000 * tag + i]
CollectionPages == { <<>>, <<901>>, <<902, 903>>, FullPage(1), FullPage(2) }

CollectionsResponses ==
    HttpFailures \cup { Ok(NotAnObject), Ok(OtherObject), Ok(PyDict([collections |-> PyNone])) }
        \cup { Ok(PyDict([collections |-> PyList(p)])) : p \in CollectionPages }

GetNftCollectionStats_Begin ==
    /\ pc = "entry"
    /\ op = "get_nft_collection_stats"
    /\ LET check == CommonChecks("MAGIC_EDEN_API_KEY", w3_instance, args.wallet_address) IN
          IF check # "ok"
          THEN /\ Raise(check)
               /\ UNCHANGED <<loc, validated>>
          ELSE /\ loc' = [loc EXCEPT !.url = Endpoint(op), !.current_offset = 0, !.acc = <<>>,
                                     !.checksum_address = to_checksum_address(args.wallet_address)]
               /\ validated' = TRUE
               /\ Goto("req")
    /\ UNCHANGED <<normVars, persistent, op, args, events, outstanding, saved, mode>>

\* a slip in the offset arithmetic: the same offset again
NextOffset_Stuck(offset) == offset

\* current_offset += page_limit
NextOffset(offset) == offset + PageLimit

\* a slip in accumulating: the page in front of what was fetched before
Extend_Prepend(acc, page) == page \o acc

\* all_collections_data.extend(collections_page)
Extend(acc, page) == acc \o page

CollectionsPage(l, r) ==
    IF r.kind # "ok" THEN Fail(l, "ConnectionError")
    ELSE LET data == r.body IN
       IF data.t = "dict" /\ "collections" \in DOMAIN data.v
       THEN LET collections_page == data.v.collections IN
               IF Falsy(collections_page) THEN Finish(l, l.acc)
               ELSE LET all == Extend(l.acc, collections_page.v) IN
                       IF Len(collections_page.v) < PageLimit
                       THEN Finish([l EXCEPT !.acc = all], all)
                       ELSE Continue([l EXCEPT !.acc = all,
                                               !.current_offset = NextOffset(l.current_offset)])
       \* the ValueError raised here is caught by `except Exception` of the same try
       ELSE Fail(l, "ConnectionError")

GetNftCollectionStats_Response ==
    /\ pc = "await"
    /\ op = "get_nft_collection_stats"
    /\ \E r \in CollectionsResponses : PageArrives(r, CollectionsPage(loc, r))
    /\ UNCHANGED <<normVars, persistent, op, args, validated, saved, mode>>

(***************************************************************************)
(* magic_eden_service.get_nft_activity: continuation pages                 *)
(***************************************************************************)
TokenIds == { PyStr("7"), PyStr(""), PyInt(FALSE, 0, 7) }

ActivityBodies ==
    { PyDict([activities |-> PyList(<<"a1">>), continuation |-> PyStr("u1")]),
      PyDict([activities |-> PyList(<<"a2", "a3">>), continuation |-> PyStr("u2")]),
      PyDict([activities |-> EmptyList, continuation |-> PyStr("u1")]),
      PyDict([continuation |-> PyStr("u2")]),
      PyDict([activities |-> PyList(<<"a1">>)]),
      PyDict([activities |-> PyList(<<"a2", "a3">>), continuation |-> PyNone]),
      PyDict([activities |-> EmptyList]),
      PyDict([activities |-> PyNone]),
      OtherObject }

ActivityResponses == HttpFailures \cup { Ok(NotAnObject) } \cup { Ok(b) : b \in ActivityBodies }

\* the module-level handle after `global w3; if not w3: w3 = get_w3()`
CachedHandle(m) == IF w3[m] = None THEN w3_instance ELSE w3[m]

GetNftActivity_Begin ==
    /\ pc = "entry"
    /\ op = "get_nft_activity"
    /\ IF ~environ["MAGIC_EDEN_API_KEY"]
       THEN /\ Raise("ValueError")
            /\ UNCHANGED <<loc, validated, w3>>
       ELSE /\ w3' = [w3 EXCEPT !["magic_eden_service"] = CachedHandle("magic_eden_service")]
            /\ LET check == CommonChecks("MAGIC_EDEN_API_KEY", CachedHandle("magic_eden_service"),
                                         args.contract_address) IN
                  IF check # "ok"
                  THEN /\ Raise(check)
                       /\ UNCHANGED <<loc, validated>>
                  ELSE \* not token_id or not isinstance(token_id, str)
                       IF Falsy(args.token_id) \/ args.token_id.t # "str"
                       THEN /\ Raise("ValueError")
                            /\ UNCHANGED <<loc, validated>>
                       ELSE /\ loc' = [loc EXCEPT !.url = Endpoint(op), !.page_num = 1,
                                                  !.acc = <<>>,
                                                  !.checksum_address =
                                                      to_checksum_address(args.contract_address)]
                            /\ validated' = TRUE
                            /\ Goto("req")
    /\ UNCHANGED <<normVars, environ, w3_instance, process, op, args, events, outstanding, saved, mode>>

ActivityPage(l, r) ==
    IF r.kind # "ok" THEN Fail(l, "ConnectionError")
    ELSE LET data == r.body IN
       IF data.t = "dict"
       THEN LET activities_page == Get(data, "activities", EmptyList) IN
               IF Falsy(activities_page) /\ l.page_num = 1 THEN Finish(l, l.acc)
               \* list.extend(None) raises TypeError, caught by `except Exception`
               ELSE IF activities_page.t # "list" THEN Fail(l, "ConnectionError")
               ELSE LET all == Extend(l.acc, activities_page.v)
                        next_continuation_url == Get(data, "continuation", PyNone)
                    IN IF Falsy(next_continuation_url)
                       THEN Finish([l EXCEPT !.acc = all], all)
                       ELSE Continue([l EXCEPT !.acc = all,
                                               !.url = next_continuation_url.v,
                                               !.page_num = NextPageNum(l.page_num)])
       \* the ValueError raised here is caught by `except Exception` of the same try
       ELSE Fail(l, "ConnectionError")

GetNftActivity_Response ==
    /\ pc = "await"
    /\ op = "get_nft_activity"
    /\ \E r \in ActivityResponses : PageArrives(r, ActivityPage(loc, r))
    /\ UNCHANGED <<normVars, persistent, op, args, validated, saved, mode>>

(***************************************************************************)
(* magic_eden_service.get_user_nft_activity: one request                    *)
(***************************************************************************)
\* the value of an int of the model's arguments
IntOf(x) == IF x.v.neg THEN 0 - x.v.lo ELSE x.v.lo

UserActivityLimits == { PyInt(FALSE, 0, 50), PyInt(FALSE, 0, 0), PyStr("12"), PyStr("up") }

\* `limit = int(limit_per_page)`, 100 when outside 1..1000, 20 when int() raises
\* ValueError
UserActivityLimit(limit_per_page) ==
    LET parsed == IF limit_per_page.t = "int"
                  THEN [ok |-> TRUE, n |-> IntOf(limit_per_page)]
                  ELSE ParseInt(limit_per_page.v)
    IN IF ~parsed.ok THEN 20
       ELSE IF parsed.n >= 1 /\ parsed.n <= 1000 THEN parsed.n
       ELSE 100

GetUserNftActivity_Begin ==
    /\ pc = "entry"
    /\ op = "get_user_nft_activity"
    /\ IF ~environ["MAGIC_EDEN_API_KEY"]
       THEN /\ Raise("ValueError")
            /\ UNCHANGED <<loc, validated, w3, events, outstanding>>
       ELSE /\ w3' = [w3 EXCEPT !["magic_eden_service"] = CachedHandle("magic_eden_service")]
            /\ LET check == CommonChecks("MAGIC_EDEN_API_KEY", CachedHandle("magic_eden_service"),
                                         args.user_address) IN
                  IF check # "ok"
                  THEN /\ Raise(check)
                       /\ UNCHANGED <<loc, validated, events, outstanding>>
                  ELSE /\ loc' = [loc EXCEPT !.url = Endpoint(op),
                                             !.checksum_address =
                                                 to_checksum_address(args.user_address)]
                       /\ validated' = TRUE
                       /\ events' = Log([ReqEvent(ApiOf(op), Endpoint(op),
                                            <<[users |-> to_checksum_address(args.user_address),
                                               limit |-> UserActivityLimit(args.limit_per_page),
                                               sortBy |-> "eventTimestamp",
                                               includeMetadata |-> FALSE]>>)
                                            EXCEPT !.validated = TRUE])
                       /\ outstanding' = outstanding + 1
                       /\ Goto("await")
    /\ UNCHANGED <<normVars, environ, w3_instance, process, op, args, saved, mode>>

\* a handler that hands back the first event only
UserActivityResult_FirstOnly(r) ==
    IF r.kind = "ok" /\ r.body.t = "dict" /\ "activities" \in DOMAIN r.body.v
    THEN [kind |-> "return",
          val |-> IF r.body.v.activities.t = "list" /\ Len(r.body.v.activities.v) > 1
                  THEN PyList(<<Head(r.body.v.activities.v)>>)
                  ELSE r.body.v.activities]
    ELSE [kind |-> "ConnectionError", val |-> <<>>]

\* the try block once the response is there; the ValueError for an unexpected
\* format is raised inside the try and caught by `except Exception`, which
\* raises ConnectionError in its place
UserActivityResult(r) ==
    IF r.kind # "ok" THEN [kind |-> "ConnectionError", val |-> <<>>]
    ELSE LET data == r.body IN
       IF data.t = "dict" /\ "activities" \in DOMAIN data.v
       THEN [kind |-> "return", val |-> Get(data, "activities", EmptyList)]
       ELSE [kind |-> "ConnectionError", val |-> <<>>]

GetUserNftActivity_Response ==
    /\ pc = "await"
    /\ op = "get_user_nft_activity"
    /\ \E r \in ActivityResponses :
          /\ Answer(r)
          /\ outcome' = UserActivityResult(r)
    /\ pc' = "done"
    /\ UNCHANGED <<normVars, persistent, op, args, loc, validated, saved, mode>>

(***************************************************************************)
(* magic_eden_service.get_trending_collections: one request                *)
(***************************************************************************)
AllowedPeriods == {"5m", "10m", "30m", "1h", "6h", "1d", "24h", "7d", "30d"}
AllowedSort == {"sales", "volume"}

TrendingLimits == { PyInt(FALSE, 0, 20), PyInt(FALSE, 0, 0), PyStr("12"), PyStr("up") }
Periods == { "1d", "7D", "2d" }
SortBys == { "sales", "Volume", "price" }

\* the defaults of get_trending_collections_tool with one argument changed
TrendingArgs ==
    LET d == [limit |-> PyInt(FALSE, 0, 20), period |-> "1d", sort_by |-> "sales"]
    IN { [d EXCEPT !.limit = l] : l \in TrendingLimits }
          \cup { [d EXCEPT !.period = p] : p \in Periods }
          \cup { [d EXCEPT !.sort_by = o] : o \in SortBys }

\* `limit = int(limit)` and its range: [ok, n]; both failures end in ValueError
TrendingLimit(limit) ==
    LET parsed == IF limit.t = "int" THEN [ok |-> TRUE, n |-> IntOf(limit)]
                  ELSE ParseInt(limit.v)
    IN [ok |-> parsed.ok /\ parsed.n >= 1 /\ parsed.n <= 500, n |-> parsed.n]

GetTrendingCollections_Begin ==
    /\ pc = "entry"
    /\ op = "get_trending_collections"
    /\ IF \/ ~environ["MAGIC_EDEN_API_KEY"]
          \/ Lower(args.period) \notin AllowedPeriods
          \/ Lower(args.sort_by) \notin AllowedSort
          \/ ~TrendingLimit(args.limit).ok
       THEN /\ Raise("ValueError")
            /\ UNCHANGED <<loc, validated, events, outstanding>>
       ELSE /\ loc' = [loc EXCEPT !.url = Endpoint(op)]
            /\ validated' = TRUE
            /\ events' = Log([ReqEvent(ApiOf(op), Endpoint(op),
                                 <<[limit |-> TrendingLimit(args.limit).n,
                                    period |-> Lower(args.period),
                                    sortBy |-> Lower(args.sort_by),
                                    normalizeRoyalties |-> TRUE,
                                    useNonFlaggedFloorAsk |-> FALSE]>>)
                                 EXCEPT !.validated = TRUE])
            /\ outstanding' = outstanding + 1
            /\ Goto("await")
    /\ UNCHANGED <<normVars, persistent, op, args, saved, mode>>

\* the try block once the response is there; the ValueError for an unexpected
\* format is raised inside the try and caught by `except Exception`
TrendingResult(r) ==
    IF r.kind # "ok" THEN [kind |-> "ConnectionError", val |-> <<>>]
    ELSE LET data == r.body IN
       IF /\ data.t = "dict"
          /\ "collections" \in DOMAIN data.v
          /\ data.v["collections"].t = "list"
       THEN [kind |-> "return", val |-> data.v["collections"]]
       ELSE [kind |-> "ConnectionError", val |-> <<>>]

GetTrendingCollections_Response ==
    /\ pc = "await"
    /\ op = "get_trending_collections"
    /\ \E r \in CollectionsResponses :
          /\ Answer(r)
          /\ outcome' = TrendingResult(r)
    /\ pc' = "done"
    /\ UNCHANGED <<normVars, persistent, op, args, loc, validated, saved, mode>>

(***************************************************************************)
(* zerion_service.get_user_nft_transactions: next-page links               *)
(***************************************************************************)
Links(u) == PyDict([next |-> PyStr(u)])

NftTxBodies ==
    { PyDict([data |-> PyList(<<"t1">>), links |-> Links("u1")]),
      PyDict([data |-> PyList(<<"t2", "t3">>), links |-> Links("u2")]),
      PyDict([data |-> EmptyList, links |-> Links("u1")]),
      PyDict([links |-> Links("u2")]),
      PyDict([data |-> PyList(<<"t1">>)]),
      PyDict([data |-> PyList(<<"t2", "t3">>), links |-> PyDict([next |-> PyNone])]),
      PyDict([data |-> EmptyList, links |-> PyDict([self |-> PyStr("u0")])]),
      PyDict([data |-> PyNone]),
      PyDict([data |-> PyList(<<"t1">>), links |-> PyNone]) }

NftTxResponses == HttpFailures \cup { Ok(NotAnObject) } \cup { Ok(b) : b \in NftTxBodies }

PageSizes == {50, 0}

GetUserNftTransactions_Begin ==
    /\ pc = "entry"
    /\ op = "get_user_nft_transactions"
    /\ IF ~environ["ZERION_API_KEY"]
       THEN /\ Raise("ValueError")
            /\ UNCHANGED <<loc, validated, w3>>
       ELSE /\ w3' = [w3 EXCEPT !["zerion_service"] = CachedHandle("zerion_service")]
            /\ LET check == CommonChecks("ZERION_API_KEY", CachedHandle("zerion_service"),
                                         args.user_address) IN
                  IF check # "ok"
                  THEN /\ Raise(check)
                       /\ UNCHANGED <<loc, validated>>
                  ELSE /\ loc' = [loc EXCEPT !.url = Endpoint(op), !.page_num = 1, !.acc = <<>>,
                                             !.checksum_address =
                                                 to_checksum_address(args.user_address)]
                       /\ validated' = TRUE
                       /\ Goto("req")
    /\ UNCHANGED <<normVars, environ, w3_instance, process, op, args, events, outstanding, saved, mode>>

\* api_data.get('links', {}).get('next'): the value, or "AttributeError"
NextLink(api_data) ==
    LET links == Get(api_data, "links", EmptyDict) IN
       IF links.t # "dict" THEN [ok |-> FALSE, v |-> PyNone]
       ELSE [ok |-> TRUE, v |-> Get(links, "next", PyNone)]

NftTxPage(l, r) ==
    IF r.kind # "ok" THEN Fail(l, "ConnectionError")
    ELSE LET api_data == r.body IN
       \* list.get, None.get raise AttributeError, caught by `except Exception`
       IF api_data.t # "dict" THEN Fail(l, "ConnectionError")
       ELSE LET tx_list_page == Get(api_data, "data", EmptyList)
                next_page_url == NextLink(api_data)
            IN IF ~next_page_url.ok THEN Fail(l, "ConnectionError")
               ELSE IF Falsy(tx_list_page) /\ l.page_num = 1 THEN Finish(l, l.acc)
               ELSE IF tx_list_page.t # "list" THEN Fail(l, "ConnectionError")
               ELSE LET all == Extend(l.acc, tx_list_page.v) IN
                       IF Falsy(next_page_url.v)
                       THEN Finish([l EXCEPT !.acc = all], all)
                       ELSE Continue([l EXCEPT !.acc = all,
                                               !.url = next_page_url.v.v,
                                               !.page_num = NextPageNum(l.page_num)])

GetUserNftTransactions_Response ==
    /\ pc = "await"
    /\ op = "get_user_nft_transactions"
    /\ \E r \in NftTxResponses : PageArrives(r, NftTxPage(loc, r))
    /\ UNCHANGED <<normVars, persistent, op, args, validated, saved, mode>>

(***************************************************************************)
(* Stable sorting, as Python's sorted(): xs is a sequence of [key, item]   *)
(* with integer keys.                                                      *)
(***************************************************************************)
RECURSIVE InsertByKey(_, _)
\* x behind every element whose key is not greater
InsertByKey(xs, x) ==
    IF xs = <<>> THEN <<x>>
    ELSE IF Head(xs).key <= x.key THEN <<Head(xs)>> \o InsertByKey(Tail(xs), x)
    ELSE <<x>> \o xs

RECURSIVE SortByKey(_)
SortByKey(xs) ==
    IF xs = <<>> THEN <<>>
    ELSE InsertByKey(SortByKey(SubSeq(xs, 1, Len(xs) - 1)), xs[Len(xs)])

(***************************************************************************)
(* zerion_service.get_monad_erc20_balances: next-page links, parsed        *)
(***************************************************************************)
Position(fungible_info, flags) ==
    PyDict([type |-> PyStr("positions"),
            attributes |-> PyDict([fungible_info |-> fungible_info,
                                   quantity |-> PyDict([numeric |-> PyStr("1.5")]),
                                   flags |-> flags])])
NotTrash == PyDict([trash |-> PyBool(FALSE)])
PosBeta == Position(PyDict([name |-> PyStr("Beta"), symbol |-> PyStr("BET")]), NotTrash)
PosAlpha == Position(PyDict([name |-> PyStr("alpha"), symbol |-> PyStr("ALP")]), NotTrash)
PosNoName == Position(PyDict([symbol |-> PyStr("ANON")]), NotTrash)
PosNullName == Position(PyDict([name |-> PyNone, symbol |-> PyStr("NUL")]), NotTrash)
PosTrash ==
    Position(PyDict([name |-> PyStr("alpha"), symbol |-> PyStr("ALP")]),
             PyDict([trash |-> PyBool(TRUE)]))
PosNullAttributes == PyDict([type |-> PyStr("positions"), attributes |-> PyNone])
PosOtherType == PyDict([type |-> PyStr("wallet")])

PositionsBodies ==
    { PyDict([data |-> PyList(<<PosBeta>>), links |-> Links("u1")]),
      PyDict([data |-> PyList(<<PosAlpha, PosNoName, PosTrash>>), links |-> Links("u2")]),
      PyDict([data |-> EmptyList, links |-> Links("u1")]),
      PyDict([data |-> PyList(<<PosNullName, PosOtherType>>), links |-> Links("u2")]),
      PyDict([data |-> PyList(<<PosBeta>>)]),
      PyDict([data |-> PyList(<<PosAlpha>>), links |-> PyDict([next |-> PyNone])]),
      PyDict([data |-> PyList(<<PosNullName>>)]),
      PyDict([links |-> PyDict([self |-> PyStr("u0")])]),
      PyDict([data |-> PyList(<<PosNullAttributes>>)]),
      PyDict([data |-> PyNone]),
      PyDict([data |-> PyList(<<PosBeta>>), links |-> PyNone]) }

PositionsResponses ==
    HttpFailures \cup { Ok(NotAnObject) } \cup { Ok(b) : b \in PositionsBodies }

NameLowerTable == ("Beta" :> "beta") @@ ("alpha" :> "alpha") @@ ("N/A" :> "n/a")
\* the order of the lower-cased names as strings
NameRank == ("alpha" :> 1) @@ ("beta" :> 2) @@ ("n/a" :> 3)

\* one position of _parse_zerion_token_data: [ok, emit, token]; ok is FALSE where
\* a .get is called on something that is no dict (AttributeError)
ParsePosition(position) ==
    LET Skip == [ok |-> TRUE, emit |-> FALSE]
        Broken == [ok |-> FALSE, emit |-> FALSE]
    IN
    IF position.t # "dict" THEN Broken
    ELSE LET type == Get(position, "type", PyNone) IN
       IF ~(type.t = "str" /\ type.v = "positions") THEN Skip
       ELSE LET attributes == Get(position, "attributes", EmptyDict) IN
          IF attributes.t # "dict" THEN Broken
          ELSE LET fungible_info == Get(attributes, "fungible_info", PyNone)
                   quantity_info == Get(attributes, "quantity", PyNone)
                   flags == Get(attributes, "flags", EmptyDict)
               IN
               IF flags.t # "dict" THEN Broken
               ELSE LET is_trash == Get(flags, "trash", PyBool(FALSE))
                        is_native == Get(flags, "native", PyBool(FALSE))
                    IN
                    IF ~Falsy(fungible_info) /\ ~Falsy(quantity_info)
                          /\ Falsy(is_trash) /\ Falsy(is_native)
                    THEN IF fungible_info.t # "dict" \/ quantity_info.t # "dict" THEN Broken
                         ELSE [ok |-> TRUE, emit |-> TRUE,
                               token |-> [name |-> Get(fungible_info, "name", PyStr("N/A")),
                                          symbol |-> Get(fungible_info, "symbol", PyStr("N/A")),
                                          balance_exact |->
                                              Get(quantity_info, "numeric", PyStr("0"))]]
                    ELSE Skip

RECURSIVE ParsePositions(_)
\* _parse_zerion_token_data: [ok, tokens]
ParsePositions(position_list) ==
    IF position_list = <<>> THEN [ok |-> TRUE, tokens |-> <<>>]
    ELSE LET first == ParsePosition(Head(position_list))
             rest == ParsePositions(Tail(position_list))
         IN IF ~first.ok \/ ~rest.ok THEN [ok |-> FALSE, tokens |-> <<>>]
            ELSE [ok |-> TRUE,
                  tokens |-> (IF first.emit THEN <<first.token>> ELSE <<>>) \o rest.tokens]

\* `return sorted(all_parsed_tokens, key=lambda x: x.get('name', '').lower())`, which
\* stands after the try: None.lower() raises AttributeError
SortTokens(tokens) ==
    IF \E i \in 1..Len(tokens) : tokens[i].name.t # "str"
    THEN [kind |-> "AttributeError", val |-> <<>>]
    ELSE LET keyed == [i \in 1..Len(tokens) |->
                          [key |-> NameRank[NameLowerTable[tokens[i].name.v]],
                           item |-> tokens[i]]]
             sorted == SortByKey(keyed)
         IN [kind |-> "return", val |-> [i \in 1..Len(sorted) |-> sorted[i].item]]

GetMonadErc20Balances_Begin ==
    /\ pc = "entry"
    /\ op = "get_monad_erc20_balances"
    /\ LET check == CommonChecks("ZERION_API_KEY", w3_instance, args.address) IN
          IF check # "ok"
          THEN /\ Raise(check)
               /\ UNCHANGED <<loc, validated>>
          ELSE /\ loc' = [loc EXCEPT !.url = Endpoint(op), !.page_num = 1, !.acc = <<>>,
                                     !.checksum_address = to_checksum_address(args.address)]
               /\ validated' = TRUE
               /\ Goto("req")
    /\ UNCHANGED <<normVars, persistent, op, args, events, outstanding, saved, mode>>

\* the loop body; the handler's last line runs where the loop ends
PositionsPage(l, r) ==
    IF r.kind # "ok" THEN Fail(l, "ConnectionError")
    ELSE LET api_data == r.body IN
       IF api_data.t # "dict" THEN Fail(l, "ConnectionError")
       ELSE LET position_list_page == Get(api_data, "data", EmptyList) IN
          \* iterating None raises TypeError, caught by `except Exception`
          IF position_list_page.t # "list" THEN Fail(l, "ConnectionError")
          ELSE LET parsed == ParsePositions(position_list_page.v)
                   next_page_url == NextLink(api_data)
               IN
               IF ~parsed.ok \/ ~next_page_url.ok THEN Fail(l, "ConnectionError")
               ELSE LET all == Extend(l.acc, parsed.tokens) IN
                  IF Falsy(next_page_url.v)
                  THEN LET result == SortTokens(all) IN
                          IF result.kind = "return"
                          THEN Finish([l EXCEPT !.acc = all], result.val)
                          ELSE Fail([l EXCEPT !.acc = all], result.kind)
                  ELSE Continue([l EXCEPT !.acc = all,
                                          !.url = next_page_url.v.v,
                                          !.page_num = NextPageNum(l.page_num)])

GetMonadErc20Balances_Response ==
    /\ pc = "await"
    /\ op = "get_monad_erc20_balances"
    /\ \E r \in PositionsResponses : PageArrives(r, PositionsPage(loc, r))
    /\ UNCHANGED <<normVars, persistent, op, args, validated, saved, mode>>

(***************************************************************************)
(* zerion_service.get_contract_interactions: next-page links, then one     *)
(* eth_getCode per address seen                                            *)
(***************************************************************************)
TxTo(a) ==
    PyDict([type |-> PyStr("transactions"), attributes |-> PyDict([sent_to |-> PyStr(a)])])
TxOtherType == PyDict([type |-> PyStr("approval")])
TxNullTo ==
    PyDict([type |-> PyStr("transactions"), attributes |-> PyDict([sent_to |-> PyNone])])
TxNullAttributes == PyDict([type |-> PyStr("transactions"), attributes |-> PyNone])

\* pages that go on (the first names a contract twice, in two spellings of
\* its type, and a malformed address) and pages that end the loop
InteractionsBodies ==
    { PyDict([data |-> PyList(<<TxTo("0xAA11"), TxOtherType, TxTo("junk")>>),
              links |-> Links("u1")]),
      PyDict([data |-> EmptyList, links |-> Links("u2")]),
      PyDict([data |-> PyList(<<TxOtherType>>)]),
      PyDict([data |-> PyList(<<TxTo("0xbb22"), TxNullTo>>),
              links |-> PyDict([next |-> PyNone])]),
      PyDict([links |-> PyDict([self |-> PyStr("u0")])]),
      PyDict([data |-> PyList(<<TxNullAttributes>>)]),
      PyDict([data |-> PyList(<<TxTo("0xAA11")>>), links |-> PyNone]) }

InteractionsResponses ==
    HttpFailures \cup { Ok(NotAnObject) } \cup { Ok(b) : b \in InteractionsBodies }

\* set.add on the set kept in the order of first insertion
AddOnce(seq, x) == IF \E i \in 1..Len(seq) : seq[i] = x THEN seq ELSE Append(seq, x)

RECURSIVE ScanTransactions(_, _, _)
\* the for loop over one page: [ok, sent_to, interacted]; sent_to is the loop's
\* local, which a transaction of another type leaves as it was (unbound at first)
ScanTransactions(txs, sent_to, interacted) ==
    IF txs = <<>> THEN [ok |-> TRUE, sent_to |-> sent_to, interacted |-> interacted]
    ELSE LET tx == Head(txs)
             Broken == [ok |-> FALSE, sent_to |-> sent_to, interacted |-> interacted]
         IN
         IF tx.t # "dict" THEN Broken
         ELSE LET type == Get(tx, "type", PyNone)
                  attributes == Get(tx, "attributes", EmptyDict)
                  is_tx == type.t = "str" /\ type.v = "transactions"
              IN
              IF is_tx /\ attributes.t # "dict" THEN Broken
              ELSE LET now == IF is_tx THEN Get(attributes, "sent_to", PyNone) ELSE sent_to IN
                 \* UnboundLocalError; str.lower on what is no string
                 IF now.t = "unbound" THEN Broken
                 ELSE IF Falsy(now) THEN ScanTransactions(Tail(txs), now, interacted)
                 ELSE IF now.t # "str" THEN Broken
                 ELSE ScanTransactions(Tail(txs), now, AddOnce(interacted, Lower(now.v)))

GetContractInteractions_Validate ==
    /\ pc = "validate"
    /\ op = "get_contract_interactions"
    /\ LET check == CommonChecks("ZERION_API_KEY", w3["zerion_service"], args.wallet_address) IN
          IF check # "ok"
          THEN /\ Raise(check)
               /\ UNCHANGED <<loc, validated>>
          ELSE /\ loc' = [loc EXCEPT !.url = Endpoint(op), !.page_num = 1,
                                     !.interacted = <<>>, !.total = 0,
                                     !.checksum_address =
                                         to_checksum_address(args.wallet_address)]
               /\ validated' = TRUE
               /\ Goto("req")
    /\ UNCHANGED <<normVars, persistent, op, args, events, outstanding, saved, mode>>

InteractionsPage(l, r) ==
    IF r.kind # "ok" THEN Fail(l, "ConnectionError")
    ELSE LET api_data == r.body IN
       IF api_data.t # "dict" THEN Fail(l, "ConnectionError")
       ELSE LET tx_list_page == Get(api_data, "data", EmptyList)
                next_page_url == NextLink(api_data)
            IN
            IF ~next_page_url.ok THEN Fail(l, "ConnectionError")
            ELSE IF Falsy(tx_list_page) /\ l.page_num = 1 THEN ThenCheck(l)
            ELSE IF tx_list_page.t # "list" THEN Fail(l, "ConnectionError")
            ELSE LET scan == ScanTransactions(tx_list_page.v, l.sent_to, l.interacted) IN
               IF ~scan.ok THEN Fail(l, "ConnectionError")
               ELSE LET after == [l EXCEPT !.sent_to = scan.sent_to,
                                           !.interacted = scan.interacted,
                                           !.total = l.total + Len(tx_list_page.v),
                                           !.page_num = NextPageNum(l.page_num)]
                    IN IF Falsy(next_page_url.v)
                       THEN ThenCheck([after EXCEPT !.url = None])
                       ELSE Continue([after EXCEPT !.url = next_page_url.v.v])

GetContractInteractions_Response ==
    /\ pc = "await"
    /\ op = "get_contract_interactions"
    /\ \E r \in InteractionsResponses : PageArrives(r, InteractionsPage(loc, r))
    /\ UNCHANGED <<normVars, persistent, op, args, validated, saved, mode>>

\* the pauses of the contract check, in milliseconds
CodeCheckSleepMs == 50
CodeCheckErrorSleepMs == 500

\* the order of the checksummed addresses as strings
AddressRank == ("0xAa11" :> 1) @@ ("0xAbC1" :> 2) @@ ("0xBb22" :> 3)

InteractionsResult(l, a) ==
    LET keyed == [i \in 1..Len(l.contracts) |->
                     [key |-> AddressRank[l.contracts[i]], item |-> l.contracts[i]]]
        sorted == SortByKey(keyed)
    IN [analysis_address |-> a.wallet_address,
        total_transactions_processed_by_zerion |-> l.total,
        unique_interacted_address_count |-> Len(l.interacted),
        unique_contract_count |-> Len(l.contracts),
        contract_addresses |-> [i \in 1..Len(sorted) |-> sorted[i].item]]

\* a loop that never moves on to the next address
NextChecked_Stuck(n) == n

\* `for addr in interacted_addresses`: on to the next address
NextChecked(n) == n + 1

\* the head of `for addr in interacted_addresses`, up to the eth_getCode request.
\* On a malformed address to_checksum_address raises; which exception is the
\* library's matter: InvalidAddress goes on without a pause, any other is
\* answered with a pause
CheckNext ==
    /\ pc = "check"
    /\ IF loc.checked = Len(loc.interacted)
       THEN /\ Return(InteractionsResult(loc, args))
            /\ UNCHANGED <<loc, events, outstanding>>
       ELSE LET addr == loc.interacted[loc.checked + 1] IN
               IF ~IsAddress(addr)
               THEN /\ \E raised \in {"InvalidAddress", "ValueError"} :
                          events' = IF raised = "InvalidAddress" THEN events
                                    ELSE Log([SleepEvent(CodeCheckErrorSleepMs)
                                                 EXCEPT !.site = "check"])
                    /\ loc' = [loc EXCEPT !.checked = NextChecked(loc.checked)]
                    /\ Goto("check")
                    /\ UNCHANGED outstanding
               ELSE /\ Issue("rpc", "eth.get_code", <<to_checksum_address(addr)>>)
                    /\ Goto("check_await")
                    /\ UNCHANGED loc
    /\ UNCHANGED <<normVars, persistent, op, args, validated, saved, mode>>

CodeAnswers ==
    { [kind |-> "ok", body |-> PyHexBytes("")], [kind |-> "ok", body |-> PyHexBytes("6080")],
      [kind |-> "error"] }

\* HexBytes is falsy when empty
HasCode(code) == code.v # "" /\ HexOf(code.v) # "0x"

CheckResponse ==
    /\ pc = "check_await"
    /\ \E r \in CodeAnswers :
          LET addr == to_checksum_address(loc.interacted[loc.checked + 1])
              pause == IF r.kind = "ok" THEN CodeCheckSleepMs ELSE CodeCheckErrorSleepMs
          IN
          /\ events' = LogAll(<<RespEvent(r), [SleepEvent(pause) EXCEPT !.site = "check"]>>)
          /\ outstanding' = outstanding - 1
          /\ loc' = [loc EXCEPT !.checked = NextChecked(loc.checked),
                                !.contracts = IF r.kind = "ok" /\ HasCode(r.body)
                                              THEN Append(loc.contracts, addr)
                                              ELSE loc.contracts]
    /\ Goto("check")
    /\ UNCHANGED <<normVars, persistent, op, args, validated, saved, mode>>

(***************************************************************************)
(* monad_service.read_contract.  An ABI is the list of the function names  *)
(* it declares.                                                            *)
(***************************************************************************)
FunctionNames == {"balanceOf", "missing"}
AbiOfToken == PyList(<<PyStr("balanceOf")>>)
AbiArgs == {PyNone, EmptyList, AbiOfToken, PyStr("[]")}

AbiResponses ==
    HttpFailures
        \cup { [kind |-> "status", code |-> 404] }
        \cup { Ok(b) : b \in { AbiOfToken, EmptyList, OtherObject, PyStr("abi"),
                               PyDict([result |-> AbiOfToken]),
                               PyDict([abi |-> AbiOfToken]),
                               PyDict([result |-> PyStr("none"), abi |-> AbiOfToken]),
                               PyDict([result |-> PyNone]) } }

\* the ABI list in a response of Insight: [ok, abi]
ParseAbi(fetched_data) ==
    IF fetched_data.t = "list" THEN [ok |-> TRUE, abi |-> fetched_data]
    ELSE IF fetched_data.t = "dict"
    THEN IF "result" \in DOMAIN fetched_data.v /\ fetched_data.v["result"].t = "list"
         THEN [ok |-> TRUE, abi |-> fetched_data.v["result"]]
         ELSE IF "abi" \in DOMAIN fetched_data.v /\ fetched_data.v["abi"].t = "list"
              THEN [ok |-> TRUE, abi |-> fetched_data.v["abi"]]
              ELSE [ok |-> FALSE, abi |-> PyNone]
    ELSE [ok |-> FALSE, abi |-> PyNone]

\* a fetch that makes nothing of the status
AbiFetchError_Any(r) == "ConnectionError"

\* the except clauses of the ABI fetch, for an answer that is no parsed JSON:
\* HTTPStatusError with 404, HTTPStatusError with another status, anything else
AbiFetchError(r) ==
    IF r.kind = "status" /\ r.code = 404 THEN "FileNotFoundError" ELSE "ConnectionError"

\* hasattr(contract.functions, function_name)
HasFunction(abi, function_name) == \E i \in 1..Len(abi.v) : abi.v[i] = PyStr(function_name)

\* a handler that takes any list for an ABI, the empty one too
CallFunction_AnyAbi(abi, answered) ==
    LET exc == IF abi.t # "list" THEN "ValueError"
               ELSE IF ~HasFunction(abi, args.function_name) THEN "ConnectionError"
               ELSE "none"
        request == [ReqEvent("rpc", "eth.call", <<PyStr(args.function_name)>>)
                       EXCEPT !.validated = TRUE]
    IN /\ events' = LogAll(answered \o (IF exc = "none" THEN <<request>> ELSE <<>>))
       /\ outstanding' = outstanding - Len(answered) + (IF exc = "none" THEN 1 ELSE 0)
       /\ IF exc = "none" THEN Goto("await") ELSE Raise(exc)

\* from `if not isinstance(abi, list) or not abi` to the eth_call request, after
\* the events in answered; the ValueError for a function the ABI lacks is raised
\* inside the try and caught by `except Exception`, which raises ConnectionError
\* in its place
CallFunction(abi, answered) ==
    LET exc == IF abi.t # "list" \/ Falsy(abi) THEN "ValueError"
               ELSE IF ~HasFunction(abi, args.function_name) THEN "ConnectionError"
               ELSE "none"
        request == [ReqEvent("rpc", "eth.call", <<PyStr(args.function_name)>>)
                       EXCEPT !.validated = TRUE]
    IN /\ events' = LogAll(answered \o (IF exc = "none" THEN <<request>> ELSE <<>>))
       /\ outstanding' = outstanding - Len(answered) + (IF exc = "none" THEN 1 ELSE 0)
       /\ IF exc = "none" THEN Goto("await") ELSE Raise(exc)

ReadContract_Validate ==
    /\ pc = "validate"
    /\ op = "read_contract"
    /\ IF ~IsAddress(args.contract_address)
       THEN /\ Raise("ValueError")
            /\ UNCHANGED <<loc, events, outstanding, validated>>
       ELSE /\ loc' = [loc EXCEPT !.checksum_address =
                                      to_checksum_address(args.contract_address)]
            /\ validated' = TRUE
            /\ IF Falsy(args.abi)
               THEN IF ~environ["THIRDWEB_CLIENT_ID"]
                    THEN /\ Raise("ValueError")
                         /\ UNCHANGED <<events, outstanding>>
                    ELSE /\ events' = Log([ReqEvent("insight", "/v1/contracts/abi/{address}",
                                                    <<>>) EXCEPT !.validated = TRUE])
                         /\ outstanding' = outstanding + 1
                         /\ Goto("abi_await")
               ELSE CallFunction(args.abi, <<>>)
    /\ UNCHANGED <<normVars, persistent, op, args, saved, mode>>

\* the response of Insight arrives: the rest of the fetch, then the call
ReadContract_AbiResponse ==
    /\ pc = "abi_await"
    /\ op = "read_contract"
    /\ \E r \in AbiResponses :
          IF r.kind # "ok"
          THEN /\ Answer(r)
               /\ Raise(AbiFetchError(r))
               /\ UNCHANGED loc
          ELSE LET parsed == ParseAbi(r.body) IN
               \* 'Could not parse ABI list' is a ValueError inside the try
               IF ~parsed.ok
               THEN /\ Answer(r)
                    /\ Raise("ConnectionError")
                    /\ UNCHANGED loc
               ELSE /\ loc' = [loc EXCEPT !.abi = parsed.abi]
                    /\ CallFunction(parsed.abi, <<RespEvent(r)>>)
    /\ UNCHANGED <<normVars, persistent, op, args, validated, saved, mode>>

\* what contract_function(...).call returns
CallResults ==
    { PyInt(FALSE, 90071992, 54740993), PyInt(FALSE, 0, 7),
      PyInt(TRUE, 90071992, 54740993), PyBytes("cd"), PyStr("Token"),
      PyList(<<PyInt(FALSE, 90071992, 54740993), PyBytes("cd"), PyInt(FALSE, 0, 7)>>),
      PyTuple(<<PyInt(FALSE, 90071992, 54740993), PyStr("Token")>>),
      PyTuple(<<PyTuple(<<PyInt(FALSE, 90071992, 54740993)>>)>>) }

CallAnswers ==
    { [kind |-> "ContractLogicError"], [kind |-> "ABIFunctionNotFound"],
      [kind |-> "ValidationError"], [kind |-> "error"] }
        \cup { [kind |-> "ok", body |-> v] : v \in CallResults }

\* one item of a list or tuple result
NormaliseItem(item) ==
    IF IsLargeInt(item) THEN PyStr(IntStr(item.v))
    ELSE IF item.t \in {"bytes", "hexbytes"} THEN PyStr(HexOf(item.v))
    ELSE item

\* the four `if isinstance(raw_result, ...)` before `return raw_result`
NormaliseResult(raw_result) ==
    IF IsLargeInt(raw_result) THEN PyStr(IntStr(raw_result.v))
    ELSE IF raw_result.t \in {"bytes", "hexbytes"} THEN PyStr(HexOf(raw_result.v))
    ELSE IF raw_result.t \in {"list", "tuple"}
    THEN PyList([i \in 1..Len(raw_result.v) |-> NormaliseItem(raw_result.v[i])])
    ELSE raw_result

ReadContract_Response ==
    /\ pc = "await"
    /\ op = "read_contract"
    /\ \E r \in CallAnswers :
          /\ Answer(r)
          /\ outcome' = CASE r.kind = "ok" -> [kind |-> "return", val |-> NormaliseResult(r.body)]
                          [] r.kind = "error" -> [kind |-> "ConnectionError", val |-> <<>>]
                          [] OTHER -> [kind |-> "ValueError", val |-> <<>>]
    /\ pc' = "done"
    /\ UNCHANGED <<normVars, persistent, op, args, loc, validated, saved, mode>>

(***************************************************************************)
(* insight_service.get_abi_from_insight                                    *)
(***************************************************************************)
GetAbiFromInsight_Begin ==
    /\ pc = "entry"
    /\ op = "get_abi_from_insight"
    /\ LET check == CommonChecks("THIRDWEB_CLIENT_ID", w3_instance, args.contract_address) IN
          IF check # "ok"
          THEN /\ Raise(check)
               /\ UNCHANGED <<loc, validated, events, outstanding>>
          ELSE /\ loc' = [loc EXCEPT !.url = Endpoint(op),
                                     !.checksum_address =
                                         to_checksum_address(args.contract_address)]
               /\ validated' = TRUE
               /\ events' = Log([ReqEvent(ApiOf(op), Endpoint(op), <<>>)
                                    EXCEPT !.validated = TRUE])
               /\ outstanding' = outstanding + 1
               /\ Goto("await")
    /\ UNCHANGED <<normVars, persistent, op, args, saved, mode>>

\* the try block once the response is there: raise_for_status, the parse of the
\* list, and the except clauses; 'Could not parse ABI list' is a ValueError
\* inside the try, which `except Exception` turns into ConnectionError
AbiResult(r) ==
    IF r.kind # "ok" THEN [kind |-> AbiFetchError(r), val |-> <<>>]
    ELSE LET parsed == ParseAbi(r.body) IN
       IF parsed.ok THEN [kind |-> "return", val |-> parsed.abi]
       ELSE [kind |-> "ConnectionError", val |-> <<>>]

GetAbiFromInsight_Response ==
    /\ pc = "await"
    /\ op = "get_abi_from_insight"
    /\ \E r \in AbiResponses :
          /\ Answer(r)
          /\ outcome' = AbiResult(r)
    /\ pc' = "done"
    /\ UNCHANGED <<normVars, persistent, op, args, loc, validated, saved, mode>>

(***************************************************************************)
(* insight_service.get_transaction_history: one page, one request          *)
(***************************************************************************)
HistoryPages == { PyInt(FALSE, 0, 0), PyInt(FALSE, 0, 2), PyInt(TRUE, 0, 1), PyStr("12") }
HistoryLimits ==
    { PyInt(FALSE, 0, 50), PyInt(FALSE, 0, 500), PyInt(FALSE, 0, 501), PyInt(FALSE, 0, 0),
      PyStr("12") }
SortOrders == { "desc", "ASC", "up" }
Timestamps == { PyNone, PyInt(FALSE, 0, 1700), PyInt(TRUE, 0, 5), PyStr("12") }

\* the arguments get_transaction_history_tool passes when the agent gives the
\* address alone
HistoryDefaults ==
    [address |-> "0xabc1", limit |-> PyInt(FALSE, 0, 50), page |-> PyInt(FALSE, 0, 0),
     sort_order |-> "desc", timestamp_gte |-> PyNone]

\* the defaults with one argument changed, or the sort order and one other
HistoryArgs ==
    UNION { { [d EXCEPT !.address = a] : a \in AddressArgs }
            \cup { [d EXCEPT !.limit = l] : l \in HistoryLimits }
            \cup { [d EXCEPT !.page = p] : p \in HistoryPages }
            \cup { [d EXCEPT !.timestamp_gte = t] : t \in Timestamps } :
            d \in { [HistoryDefaults EXCEPT !.sort_order = o] : o \in SortOrders } }

HistoryBodies ==
    { PyDict([data |-> PyList(<<"t1", "t2">>)]),
      PyDict([data |-> EmptyList]),
      PyDict([data |-> PyNone]),
      OtherObject, NotAnObject }

HistoryResponses == HttpFailures \cup { Ok(b) : b \in HistoryBodies }

\* a handler that takes any page number
HistoryChecks_AnyPage(a) ==
    IF a.limit.t # "int" \/ IntOf(a.limit) < 1 \/ IntOf(a.limit) > 500 THEN "ValueError"
    ELSE IF Lower(a.sort_order) \notin {"asc", "desc"} THEN "ValueError"
    ELSE IF a.timestamp_gte # PyNone
            /\ (a.timestamp_gte.t # "int" \/ IntOf(a.timestamp_gte) < 0) THEN "ValueError"
    ELSE "ok"

\* the checks of page, limit, sort_order and timestamp_gte, in the order of the code
HistoryChecks(a) ==
    IF a.page.t # "int" \/ IntOf(a.page) < 0 THEN "ValueError"
    ELSE IF a.limit.t # "int" \/ IntOf(a.limit) < 1 \/ IntOf(a.limit) > 500 THEN "ValueError"
    ELSE IF Lower(a.sort_order) \notin {"asc", "desc"} THEN "ValueError"
    ELSE IF a.timestamp_gte # PyNone
            /\ (a.timestamp_gte.t # "int" \/ IntOf(a.timestamp_gte) < 0) THEN "ValueError"
    ELSE "ok"

\* the query parameters: filter_block_timestamp_gte only when a timestamp is given
HistoryParams(a) ==
    LET params == [chain |-> "10143", limit |-> a.limit, page |-> a.page,
                   sort_order |-> Lower(a.sort_order)]
    IN IF a.timestamp_gte = PyNone THEN params
       ELSE [k \in DOMAIN params \cup {"filter_block_timestamp_gte"} |->
                IF k = "filter_block_timestamp_gte" THEN a.timestamp_gte ELSE params[k]]

GetTransactionHistory_Begin ==
    /\ pc = "entry"
    /\ op = "get_transaction_history"
    /\ LET check == CommonChecks("THIRDWEB_CLIENT_ID", w3_instance, args.address)
           exc == IF check # "ok" THEN check ELSE HistoryChecks(args)
       IN IF exc # "ok"
          THEN /\ Raise(exc)
               /\ UNCHANGED <<loc, validated, events, outstanding>>
          ELSE /\ loc' = [loc EXCEPT !.url = Endpoint(op),
                                     !.checksum_address = to_checksum_address(args.address)]
               /\ validated' = TRUE
               /\ events' = Log([ReqEvent(ApiOf(op), Endpoint(op), <<HistoryParams(args)>>)
                                    EXCEPT !.validated = TRUE])
               /\ outstanding' = outstanding + 1
               /\ Goto("await")
    /\ UNCHANGED <<normVars, persistent, op, args, saved, mode>>

\* the try block once the response is there; the ValueError for a body without
\* a 'data' list is raised inside the try and caught by `except Exception`
HistoryResult(r) ==
    IF r.kind # "ok" THEN [kind |-> "ConnectionError", val |-> <<>>]
    ELSE LET fetched_data == r.body IN
       IF /\ fetched_data.t = "dict"
          /\ "data" \in DOMAIN fetched_data.v
          /\ fetched_data.v["data"].t = "list"
       THEN [kind |-> "return", val |-> fetched_data.v["data"]]
       ELSE [kind |-> "ConnectionError", val |-> <<>>]

GetTransactionHistory_Response ==
    /\ pc = "await"
    /\ op = "get_transaction_history"
    /\ \E r \in HistoryResponses :
          /\ Answer(r)
          /\ outcome' = HistoryResult(r)
    /\ pc' = "done"
    /\ UNCHANGED <<normVars, persistent, op, args, loc, validated, saved, mode>>

(***************************************************************************)
(* Calls.                                                                  *)
(***************************************************************************)
Calls ==
    { [op |-> "get_transaction", args |-> [tx_hash |-> h]] : h \in TxHashes }
    \cup { [op |-> "get_block", args |-> [block_identifier |-> b]] : b \in BlockIdentifiers }
    \cup { [op |-> "get_nft_collection_stats", args |-> [wallet_address |-> a]] :
                a \in AddressArgs }
    \cup { [op |-> "get_nft_activity", args |-> [contract_address |-> a, token_id |-> t]] :
                a \in AddressArgs, t \in TokenIds }
    \cup { [op |-> "read_contract",
             args |-> [contract_address |-> a, function_name |-> f, abi |-> b]] :
                a \in AddressArgs, f \in FunctionNames, b \in AbiArgs }
    \cup { [op |-> "get_monad_erc20_balances", args |-> [address |-> a]] : a \in AddressArgs }
    \cup { [op |-> "get_contract_interactions", args |-> [wallet_address |-> a]] :
                a \in AddressArgs }
    \cup { [op |-> "get_user_nft_transactions",
            args |-> [user_address |-> a, limit_per_page |-> n]] :
                a \in AddressArgs, n \in PageSizes }
    \cup { [op |-> "get_transaction_history", args |-> a] : a \in HistoryArgs }
    \cup { [op |-> "get_abi_from_insight", args |-> [contract_address |-> a]] :
                a \in AddressArgs }
    \cup { [op |-> "get_trending_collections", args |-> a] : a \in TrendingArgs }
    \cup { [op |-> "get_user_nft_activity",
            args |-> [user_address |-> a, limit_per_page |-> n]] :
                a \in AddressArgs, n \in UserActivityLimits }

\* the calls of the side-by-side runs: for the operations with a gate or a page
\* loop arguments that pass the checks and arguments that do not, for the
\* single-request operations arguments that pass
PairCalls ==
    { c \in Calls :
        CASE c.op = "get_transaction" -> c.args.tx_hash.len = 66
          [] c.op = "get_block" ->
                c.args.block_identifier \in {PyStr("Latest"), PyInt(TRUE, 0, 5)}
          [] c.op = "get_nft_activity" ->
                c.args.contract_address = "0xabc1" /\ c.args.token_id.t = "str"
          [] c.op = "read_contract" ->
                /\ c.args.function_name = "balanceOf"
                /\ c.args.abi \in {PyNone, AbiOfToken}
                /\ c.args.contract_address = "0xabc1" \/ c.args.abi = PyNone
          [] c.op = "get_user_nft_transactions" -> c.args.limit_per_page = 50
          [] c.op = "get_user_nft_activity" ->
                /\ c.args.user_address = "0xabc1"
                /\ c.args.limit_per_page = PyInt(FALSE, 0, 50)
          [] c.op = "get_abi_from_insight" -> c.args.contract_address = "0xabc1"
          [] c.op = "get_transaction_history" ->
                /\ c.args.sort_order = "desc"
                /\ c.args.limit = PyInt(FALSE, 0, 50)
                /\ c.args.timestamp_gte = PyNone
                /\ c.args.address = "0xabc1"
                /\ c.args.page = PyInt(FALSE, 0, 0)
          [] c.op = "get_trending_collections" ->
                /\ c.args.period = "1d"
                /\ c.args.sort_by = "sales"
                /\ c.args.limit = PyInt(FALSE, 0, 20)
          [] OTHER -> TRUE }

\* the agent invokes a tool; every local of the handler starts afresh
Call ==
    /\ pc \in {"idle", "done"}
    /\ \E c \in (IF mode = "pair" THEN PairCalls ELSE Calls) :
          /\ op' = c.op
          /\ args' = c.args
    /\ pc' = "entry"
    /\ loc' = EnterLocals(loc)
    /\ outcome' = NoOutcome
    /\ events' = <<>>
    /\ outstanding' = 0
    /\ validated' = FALSE
    /\ saved' = [i \in DOMAIN saved |-> [saved[i] EXCEPT !.own = FALSE]]
    /\ UNCHANGED <<normVars, persistent, mode>>

(***************************************************************************)
(* The specification of the services.                                      *)
(***************************************************************************)
Environments ==
    { [MONAD_TESTNET_RPC_URL |-> TRUE, MAGIC_EDEN_API_KEY |-> TRUE,
       ZERION_API_KEY |-> TRUE, THIRDWEB_CLIENT_ID |-> TRUE],
      [MONAD_TESTNET_RPC_URL |-> TRUE, MAGIC_EDEN_API_KEY |-> FALSE,
       ZERION_API_KEY |-> TRUE, THIRDWEB_CLIENT_ID |-> TRUE],
      [MONAD_TESTNET_RPC_URL |-> TRUE, MAGIC_EDEN_API_KEY |-> TRUE,
       ZERION_API_KEY |-> FALSE, THIRDWEB_CLIENT_ID |-> TRUE],
      [MONAD_TESTNET_RPC_URL |-> TRUE, MAGIC_EDEN_API_KEY |-> TRUE,
       ZERION_API_KEY |-> TRUE, THIRDWEB_CLIENT_ID |-> FALSE] }

\* after the imports: initialize_web3() has run once, and every service module
\* has executed its `w3 = get_w3()`
ServiceInit ==
    /\ environ \in Environments
    /\ w3_instance \in {None, W3}
    /\ w3 = [m \in Modules |-> w3_instance]
    /\ op = "none"
    /\ args = <<>>
    /\ pc = "idle"
    /\ loc = FreshLocals
    /\ outcome = NoOutcome
    /\ events = <<>>
    /\ outstanding = 0
    /\ validated = FALSE
    /\ saved = <<>>
    /\ process = NotStarted

Init ==
    /\ ServiceInit
    /\ mode = "trace"
    /\ node_value = PyNone
    /\ converted = Unset

Next ==
    \/ Call
    \/ GateEnter \/ GateProbe1 \/ GateProbe2
    \/ GetTransaction_Validate \/ GetTransaction_Response
    \/ GetBlock_Validate \/ GetBlock_Response
    \/ SendPage \/ Sleep
    \/ GetNftCollectionStats_Begin \/ GetNftCollectionStats_Response
    \/ GetNftActivity_Begin \/ GetNftActivity_Response
    \/ GetUserNftActivity_Begin \/ GetUserNftActivity_Response
    \/ GetUserNftTransactions_Begin \/ GetUserNftTransactions_Response
    \/ GetMonadErc20Balances_Begin \/ GetMonadErc20Balances_Response
    \/ GetContractInteractions_Validate \/ GetContractInteractions_Response
    \/ CheckNext \/ CheckResponse
    \/ ReadContract_Validate \/ ReadContract_AbiResponse \/ ReadContract_Response
    \/ GetTransactionHistory_Begin \/ GetTransactionHistory_Response
    \/ GetAbiFromInsight_Begin \/ GetAbiFromInsight_Response
    \/ GetTrendingCollections_Begin \/ GetTrendingCollections_Response

Spec == Init /\ [][Next]_vars

(***************************************************************************)
(* Two invocations side by side: an observer keeps one finished invocation *)
(* (what was asked, what the servers answered, what came of it) while the  *)
(* service goes on being called.                                           *)
(***************************************************************************)
Save ==
    /\ pc = "done"
    /\ saved = <<>>
    /\ saved' = <<[op |-> op, args |-> args, outcome |-> outcome, own |-> TRUE,
                   requests |-> SelectSeq(events, LAMBDA e : e.k = "req"),
                   responses |-> SelectSeq(events, LAMBDA e : e.k = "resp")]>>
    /\ UNCHANGED <<normVars, persistent, callVars, events, outstanding, validated, mode>>

\* the credentials are those of one process: all set
PairInit ==
    /\ ServiceInit
    /\ environ = [MONAD_TESTNET_RPC_URL |-> TRUE, MAGIC_EDEN_API_KEY |-> TRUE, ZERION_API_KEY |-> TRUE,
                  THIRDWEB_CLIENT_ID |-> TRUE]
    /\ mode = "pair"
    /\ node_value = PyNone
    /\ converted = Unset

PairNext == Next \/ Save

SpecPair == PairInit /\ [][PairNext]_vars

(***************************************************************************)
(* The services with servers that never run out of pages.  The event loop  *)
(* runs a coroutine that can run, and every request completes: a handler   *)
(* under way takes its next step.  When the agent calls is up to the agent.*)
(***************************************************************************)
LiveInit ==
    /\ ServiceInit
    /\ mode = "live"
    /\ node_value = PyNone
    /\ converted = Unset

HandlerStep ==
    \/ GateEnter \/ GateProbe1 \/ GateProbe2
    \/ GetTransaction_Validate \/ GetTransaction_Response
    \/ GetBlock_Validate \/ GetBlock_Response
    \/ SendPage \/ Sleep
    \/ GetNftCollectionStats_Begin \/ GetNftCollectionStats_Response
    \/ GetNftActivity_Begin \/ GetNftActivity_Response
    \/ GetUserNftActivity_Begin \/ GetUserNftActivity_Response
    \/ GetUserNftTransactions_Begin \/ GetUserNftTransactions_Response
    \/ GetMonadErc20Balances_Begin \/ GetMonadErc20Balances_Response
    \/ GetContractInteractions_Validate \/ GetContractInteractions_Response
    \/ CheckNext \/ CheckResponse
    \/ ReadContract_Validate \/ ReadContract_AbiResponse \/ ReadContract_Response
    \/ GetTransactionHistory_Begin \/ GetTransactionHistory_Response
    \/ GetAbiFromInsight_Begin \/ GetAbiFromInsight_Response
    \/ GetTrendingCollections_Begin \/ GetTrendingCollections_Response

LiveNext == Call \/ HandlerStep

LiveSpec == LiveInit /\ [][LiveNext]_vars /\ WF_vars(HandlerStep)

(***************************************************************************)
(* The specification of the normaliser alone: a value is built up around   *)
(* a leaf, then converted.                                                 *)
(***************************************************************************)
NormInit ==
    /\ node_value \in Leaves
    /\ converted = Unset
    /\ ServiceInit
    /\ environ = [MONAD_TESTNET_RPC_URL |-> TRUE, MAGIC_EDEN_API_KEY |-> TRUE,
                  ZERION_API_KEY |-> TRUE, THIRDWEB_CLIENT_ID |-> TRUE]
    /\ w3_instance = W3
    /\ mode = "trace"

CanWrap == converted = Unset /\ Depth(node_value) < MaxDepth

\* the node's value sits in a list, alone or beside a sibling
WrapList ==
    /\ CanWrap
    /\ \E s \in Siblings :
          node_value' \in { PyList(<<node_value>>), PyList(<<s, node_value>>),
                            PyList(<<node_value, s>>) }
    /\ UNCHANGED <<converted, persistent, callVars, observers, mode>>

\* the node's value sits in a tuple
WrapTuple ==
    /\ CanWrap
    /\ \E s \in Siblings :
          node_value' \in { PyTuple(<<node_value>>), PyTuple(<<s, node_value>>) }
    /\ UNCHANGED <<converted, persistent, callVars, observers, mode>>

\* the node's value is a field of a mapping (web3's AttributeDict)
WrapDict ==
    /\ CanWrap
    /\ \E s \in Siblings :
          node_value' \in { PyDict([value |-> node_value]),
                            PyDict([gas |-> s, value |-> node_value]) }
    /\ UNCHANGED <<converted, persistent, callVars, observers, mode>>

EmptyContainer ==
    /\ converted = Unset
    /\ node_value \in Leaves
    /\ node_value' \in { PyList(<<>>), PyDict(<<>>) }
    /\ UNCHANGED <<converted, persistent, callVars, observers, mode>>

Convert ==
    /\ converted = Unset
    /\ converted' = attrdict_to_dict(node_value)
    /\ UNCHANGED <<node_value, persistent, callVars, observers, mode>>

NormNext == WrapList \/ WrapTuple \/ WrapDict \/ EmptyContainer \/ Convert

SpecNorm == NormInit /\ [][NormNext]_vars

(***************************************************************************)
(* The start of the server.  mcp_server.py is run as a script (its         *)
(* `if __name__ == '__main__'` block runs and calls main) or it is         *)
(* imported and main is called.  Either way the imports come first:        *)
(* web3_setup runs initialize_web3(), every service module its             *)
(* `w3 = get_w3()`.                                                        *)
(***************************************************************************)
EnvVars ==
    {"MONAD_TESTNET_RPC_URL", "MAGIC_EDEN_API_KEY", "ZERION_API_KEY", "THIRDWEB_CLIENT_ID"}

Launches == {"script", "main"}

ToolNames ==
    {"get_native_monad_balance_tool", "read_contract_tool", "get_monad_transaction_tool",
     "get_monad_block_tool", "get_contract_interactions_tool",
     "get_monad_erc20_balances_tool", "get_user_nft_transactions_tool",
     "get_nft_collection_stats_tool", "get_nft_activity_tool",
     "get_trending_collections_tool", "get_contract_abi_tool",
     "get_transaction_history_tool"}

\* before the first import: any environment, no handle, no tool called
StartInit ==
    /\ environ \in [EnvVars -> BOOLEAN]
    /\ w3_instance = None
    /\ w3 = [m \in Modules |-> None]
    /\ \E l \in Launches : process = [NotStarted EXCEPT !.launch = l]
    /\ op = "none"
    /\ args = <<>>
    /\ pc = "idle"
    /\ loc = FreshLocals
    /\ outcome = NoOutcome
    /\ events = <<>>
    /\ outstanding = 0
    /\ validated = FALSE
    /\ saved = <<>>
    /\ mode = "trace"
    /\ node_value = PyNone
    /\ converted = Unset

\* initialize_web3(): no handle without the URL, without a node that answers
\* is_connected(), or after an exception
InitializeWeb3 ==
    /\ process.stage = "load"
    /\ IF ~environ["MONAD_TESTNET_RPC_URL"]
       THEN w3_instance' = None
       ELSE \E connected \in BOOLEAN : w3_instance' = IF connected THEN W3 ELSE None
    /\ process' = [process EXCEPT !.stage = "web3"]
    /\ UNCHANGED <<normVars, environ, w3, callVars, observers, mode>>

\* the module-level `w3 = get_w3()` of the service modules; then the script's
\* own block, or main at once
ImportServices ==
    /\ process.stage = "web3"
    /\ w3' = [m \in Modules |-> w3_instance]
    /\ process' = [process EXCEPT
                      !.stage = IF process.launch = "script" THEN "guard" ELSE "main",
                      !.check = 1]
    /\ UNCHANGED <<normVars, environ, w3_instance, callVars, observers, mode>>

\* the `if not os.getenv(...)` of the `__main__` block, in their order, and
\* whether they end in sys.exit(1)
GuardChecks ==
    << [var |-> "MONAD_TESTNET_RPC_URL", fatal |-> TRUE],
       [var |-> "MAGIC_EDEN_API_KEY", fatal |-> FALSE],
       [var |-> "ZERION_API_KEY", fatal |-> FALSE],
       [var |-> "THIRDWEB_CLIENT_ID", fatal |-> TRUE] >>

\* those of main
MainChecks ==
    << [var |-> "MONAD_TESTNET_RPC_URL", fatal |-> TRUE],
       [var |-> "MAGIC_EDEN_API_KEY", fatal |-> FALSE],
       [var |-> "ZERION_API_KEY", fatal |-> FALSE],
       [var |-> "THIRDWEB_CLIENT_ID", fatal |-> FALSE] >>

Exited == [process EXCEPT !.stage = "exited", !.status = "exit 1"]

\* the next check of the list, or after the last the `if get_w3() is None`
RunCheck(checks, then) ==
    LET i == process.check IN
    IF i <= Len(checks)
    THEN IF environ[checks[i].var]
         THEN [process EXCEPT !.check = i + 1]
         ELSE IF checks[i].fatal
              THEN Exited
              ELSE [process EXCEPT !.check = i + 1,
                                   !.warnings = @ \cup {checks[i].var}]
    ELSE IF w3_instance = None
         THEN Exited
         ELSE [process EXCEPT !.stage = then, !.check = 1]

\* one check of the `__main__` block; after the last, main()
GuardCheck ==
    /\ process.stage = "guard"
    /\ process' = RunCheck(GuardChecks, "main")
    /\ UNCHANGED <<normVars, environ, w3_instance, w3, callVars, observers, mode>>

\* one check of main; after the last, FastMCP(...)
MainCheck ==
    /\ process.stage = "main"
    /\ process' = RunCheck(MainChecks, "configured")
    /\ UNCHANGED <<normVars, environ, w3_instance, w3, callVars, observers, mode>>

\* the @mcp.tool() definitions
RegisterTools ==
    /\ process.stage = "configured"
    /\ process' = [process EXCEPT !.stage = "registered", !.tools = ToolNames]
    /\ UNCHANGED <<normVars, environ, w3_instance, w3, callVars, observers, mode>>

\* mcp.run(transport): the server serves, or run raises and the process exits
Run ==
    /\ process.stage = "registered"
    /\ \E raised \in BOOLEAN :
          process' = IF raised THEN Exited ELSE [process EXCEPT !.stage = "serving"]
    /\ UNCHANGED <<normVars, environ, w3_instance, w3, callVars, observers, mode>>

StartNext ==
    InitializeWeb3 \/ ImportServices \/ GuardCheck \/ MainCheck \/ RegisterTools \/ Run

SpecStart == StartInit /\ [][StartNext]_vars

(***************************************************************************)
(* C6: attrdict_to_dict applies the widened-integer transform at every     *)
(* nesting depth of mappings and lists: an integer strictly greater than   *)
(* 2^53 becomes its decimal string, an integer up to 2^53 is unchanged,    *)
(* and mapping keys, list lengths and element order are preserved.         *)
(***************************************************************************)
RECURSIVE Widened(_, _)
Widened(x, y) ==
    CASE x.t = "int" ->
            IF IntGt(x.v, TwoPow53) THEN y = PyStr(IntStr(x.v)) ELSE y = x
      [] x.t = "dict" ->
            /\ y.t = "dict"
            /\ DOMAIN y.v = DOMAIN x.v
            /\ \A k \in DOMAIN x.v : Widened(x.v[k], y.v[k])
      [] x.t = "list" ->
            /\ y.t = "list"
            /\ Len(y.v) = Len(x.v)
            /\ \A i \in 1..Len(x.v) : Widened(x.v[i], y.v[i])
      [] OTHER -> TRUE

C6_WidenedAtEveryDepth == converted # Unset => Widened(node_value, converted)

\* the decimal string of 2^53 + 1 two lists deep, a small integer beside it unchanged
C6_Witness ==
    /\ node_value = PyList(<<PyList(<<PyInt(FALSE, 90071992, 54740993)>>)>>)
    /\ converted = PyList(<<PyList(<<PyStr("9007199254740993")>>)>>)


(***************************************************************************)
(* What an observer of one invocation sees.                                *)
(***************************************************************************)
Requests == SelectSeq(events, LAMBDA e : e.k = "req")
Responses == SelectSeq(events, LAMBDA e : e.k = "resp")

\* the list under key in the JSON object of a response, empty if there is none
PageItems(r, key) ==
    IF r.kind = "ok" /\ r.body.t = "dict" /\ key \in DOMAIN r.body.v /\ r.body.v[key].t = "list"
    THEN r.body.v[key].v
    ELSE <<>>

RECURSIVE Concatenation(_, _)
\* the lists under key of the responses, one after the other
Concatenation(resps, key) ==
    IF resps = <<>> THEN <<>>
    ELSE PageItems(Head(resps).r, key) \o Concatenation(Tail(resps), key)

Returned == pc = "done" /\ outcome.kind = "return"

(***************************************************************************)
(* C8: get_nft_collection_stats requests the offsets 0, 100, 200, ... in   *)
(* this order with limit 100, never repeating or skipping one, stops at    *)
(* the first page that is empty or holds fewer than 100 items, and returns *)
(* exactly the concatenation, in request order, of the 'collections' lists *)
(* of every page fetched.                                                  *)
(***************************************************************************)
C8_OffsetPages ==
    op = "get_nft_collection_stats" =>
       /\ \A i \in 1..Len(Requests) :
             Requests[i].params = <<[limit |-> 100, offset |-> 100 * (i - 1)]>>
       \* a further page was asked for only after a full one
       /\ \A i \in 1..Len(Responses) :
             i < Len(Requests) => Len(PageItems(Responses[i].r, "collections")) >= 100
       \* an empty or short page is the last
       /\ \A i \in 1..Len(Responses) :
             Len(PageItems(Responses[i].r, "collections")) < 100
                => i = Len(Requests) /\ pc = "done"
       /\ Returned => outcome.val = Concatenation(Responses, "collections")

\* a full page and a page of two: 102 collections after the offsets 0 and 100
C8_Witness ==
    /\ op = "get_nft_collection_stats"
    /\ Returned
    /\ Len(Requests) = 2
    /\ Requests[2].params = <<[limit |-> 100, offset |-> 100]>>
    /\ Len(outcome.val) = 102
    /\ outcome.val[101] = 902

(***************************************************************************)
(* C9: get_nft_activity sends its query parameters (limit 20, sortBy,      *)
(* includeMetadata) with the first request, sends each later request to    *)
(* exactly the continuation of the page before with no parameters, stops   *)
(* at the first page without a continuation, and returns the               *)
(* concatenation in page order of the 'activities' of every page fetched.  *)
(***************************************************************************)
\* the continuation a response carries
ContinuationOf(r) ==
    IF r.kind = "ok" /\ r.body.t = "dict" THEN Get(r.body, "continuation", PyNone) ELSE PyNone

ActivityRequestsAndResult ==
    /\ \A i \in 1..Len(Requests) :
          IF i = 1
          THEN /\ Requests[i].params =
                     <<[limit |-> 20, sortBy |-> "eventTimestamp", includeMetadata |-> TRUE]>>
               /\ Requests[i].url = Endpoint("get_nft_activity")
          ELSE /\ Requests[i].params = <<>>
               /\ ~Falsy(ContinuationOf(Responses[i - 1].r))
               /\ Requests[i].url = ContinuationOf(Responses[i - 1].r).v
    /\ Returned => outcome.val = Concatenation(Responses, "activities")

\* as the claim states it: the loop goes on exactly as long as pages carry a
\* continuation
C9_AsStated ==
    op = "get_nft_activity" =>
       /\ ActivityRequestsAndResult
       /\ Returned => Falsy(ContinuationOf(Responses[Len(Responses)].r))

\* as the code has it: the first page also ends the loop when it has no activities
C9_ContinuationPages ==
    op = "get_nft_activity" =>
       /\ ActivityRequestsAndResult
       /\ Returned =>
             \/ Falsy(ContinuationOf(Responses[Len(Responses)].r))
             \/ /\ Len(Responses) = 1
                /\ PageItems(Responses[1].r, "activities") = <<>>

\* two pages, the second without a continuation
C9_Witness ==
    /\ op = "get_nft_activity"
    /\ Returned
    /\ Len(Requests) = 2
    /\ Requests[2].url = "u1"
    /\ outcome.val = <<"a1", "a2", "a3">>

(***************************************************************************)
(* C10: get_user_nft_transactions sends its filter parameters only with    *)
(* the first request, follows links.next verbatim with no parameters on    *)
(* every later request, stops at the first page whose links.next is        *)
(* absent, and returns the concatenation in page order of the 'data' lists *)
(* of every page fetched.                                                  *)
(***************************************************************************)
\* links.next of a response
NextOf(r) ==
    IF r.kind = "ok" /\ r.body.t = "dict" /\ NextLink(r.body).ok
    THEN NextLink(r.body).v
    ELSE PyNone

NftTxRequestsAndResult ==
    /\ \A i \in 1..Len(Requests) :
          IF i = 1
          THEN /\ Requests[i].params =
                     <<[chain_ids |-> "monad-test-v2", size |-> args.limit_per_page,
                        asset_types |-> "nft"]>>
               /\ Requests[i].url = Endpoint("get_user_nft_transactions")
          ELSE /\ Requests[i].params = <<>>
               /\ ~Falsy(NextOf(Responses[i - 1].r))
               /\ Requests[i].url = NextOf(Responses[i - 1].r).v
    /\ Returned => outcome.val = Concatenation(Responses, "data")

\* as the claim states it
C10_AsStated ==
    op = "get_user_nft_transactions" =>
       /\ NftTxRequestsAndResult
       /\ Returned => Falsy(NextOf(Responses[Len(Responses)].r))

\* as the code has it: the first page also ends the loop when its data is empty
C10_NextPages ==
    op = "get_user_nft_transactions" =>
       /\ NftTxRequestsAndResult
       /\ Returned =>
             \/ Falsy(NextOf(Responses[Len(Responses)].r))
             \/ /\ Len(Responses) = 1
                /\ PageItems(Responses[1].r, "data") = <<>>

\* three pages, the last without links.next
C10_Witness ==
    /\ op = "get_user_nft_transactions"
    /\ Returned
    /\ Len(Requests) = 3
    /\ Requests[3].url = "u2"
    /\ outcome.val = <<"t1", "t2", "t3", "t1">>


(***************************************************************************)
(* C1: input validation precedes external calls: in one invocation no      *)
(* request to an external endpoint, connectivity probes included, is       *)
(* issued before all arguments are validated, and an invocation with an    *)
(* invalid argument ends in an error with zero external requests issued.   *)
(***************************************************************************)
\* the arguments the claim calls invalid
InvalidArguments ==
    CASE op = "get_transaction" -> BadTxHash(args.tx_hash)
      [] op = "get_block" -> ~ParseBlockIdentifier(args.block_identifier).ok
      [] op = "get_nft_collection_stats" -> ~IsAddress(args.wallet_address)
      [] op = "get_nft_activity" ->
            \/ ~IsAddress(args.contract_address)
            \/ Falsy(args.token_id) \/ args.token_id.t # "str"
      [] op = "read_contract" -> ~IsAddress(args.contract_address)
      [] op = "get_monad_erc20_balances" -> ~IsAddress(args.address)
      [] op = "get_contract_interactions" -> ~IsAddress(args.wallet_address)
      [] op = "get_user_nft_transactions" ->
            ~IsAddress(args.user_address) \/ args.limit_per_page < 1
      [] OTHER -> FALSE

C1_AsStated ==
    /\ \A i \in 1..Len(Requests) : Requests[i].validated
    /\ InvalidArguments =>
          /\ Len(Requests) = 0
          /\ pc = "done" => outcome.kind \in Errors

(***************************************************************************)
(* C2: every operation ends by returning a value or by raising ValueError, *)
(* ConnectionError, FileNotFoundError or TypeError; for any inputs and any *)
(* external responses, items with missing or null fields included, no      *)
(* other exception type escapes.                                           *)
(***************************************************************************)
C2_AsStated == pc = "done" => outcome.kind \in {"return"} \cup Errors

(***************************************************************************)
(* C4: within one invocation of a paginated operation at most one request  *)
(* is outstanding at any time, request k+1 is issued only after the        *)
(* response to request k has been received and processed, a pause of 0.5 s *)
(* lies between every two consecutive page requests, and the page loop     *)
(* takes no pause after its last page.                                     *)
(***************************************************************************)
IsPageRequest(e) == e.k = "req" /\ e.api # "rpc"
IsPagePause(e) == e.k = "sleep" /\ e.site = "page"

RECURSIVE JsonSafe(_)
JsonSafe(x) ==
    CASE x.t \in {"bytes", "hexbytes"} -> FALSE
      [] x.t = "int" -> ~MagGt(x.v, TwoPow53)
      [] x.t \in {"list", "tuple", "dict"} -> \A k \in DOMAIN x.v : JsonSafe(x.v[k])
      [] OTHER -> TRUE

C7_AsStated ==
    (op \in {"get_transaction", "get_block", "read_contract"} /\ Returned)
       => JsonSafe(outcome.val)


(***************************************************************************)
(* C3: provided every request completes, every operation eventually        *)
(* returns a value or raises: no pagination loop runs forever, whatever    *)
(* sequence of pages the server sends.                                     *)
(***************************************************************************)
Busy == pc \notin {"idle", "done"}

\* as the claim states it
C3_AsStated == Busy ~> (pc = "done")

\* as the code has it: no loop counts its pages, so an operation ends unless the
\* server goes on for ever answering with pages that make the loop go on
C3_EndsUnlessPagesNeverEnd == ([]<>(pc = "sleep")) \/ (Busy ~> (pc = "done"))

\* an invocation that ended after more pages than the bounded servers send
C3_Witness ==
    /\ mode = "live"
    /\ op = "get_nft_activity"
    /\ Returned
    /\ loc.page_num > MaxPages

(***************************************************************************)
(* C5: no operation caches results or keeps state between calls: two       *)
(* invocations of the same operation with the same arguments that receive  *)
(* the same external responses have the same outcome and issue the same    *)
(* sequence of requests, whatever was invoked before.                      *)
(***************************************************************************)
\* the invocation that has just ended got what the saved, earlier one got
SameAsSaved ==
    /\ saved # <<>>
    /\ ~saved[1].own
    /\ pc = "done"
    /\ op = saved[1].op
    /\ args = saved[1].args
    /\ Responses = saved[1].responses

C5_NoStateBetweenCalls ==
    SameAsSaved => outcome = saved[1].outcome /\ Requests = saved[1].requests

\* two paged invocations with the same answers, both returning
C5_Witness ==
    /\ SameAsSaved
    /\ op = "get_contract_interactions"
    /\ Returned
    /\ Len(Requests) >= 3
    /\ outcome.val.unique_contract_count = 1

(***************************************************************************)
(* C11: get_user_nft_activity does not paginate: an invocation issues at   *)
(* most one HTTP request whatever the response holds, a continuation       *)
(* cursor included, and on success returns exactly the value under         *)
(* 'activities' of that one response.                                      *)
(***************************************************************************)
C11_OneRequest ==
    op = "get_user_nft_activity" =>
       /\ Len(Requests) <= 1
       \* the one response ends the invocation
       /\ Len(Responses) = 1 => pc = "done"
       /\ Returned =>
             /\ Len(Requests) = 1
             /\ Len(Responses) = 1
             /\ Responses[1].r.kind = "ok"
             /\ Responses[1].r.body.t = "dict"
             /\ "activities" \in DOMAIN Responses[1].r.body.v
             /\ outcome.val = Responses[1].r.body.v.activities

\* a page of two events that names a continuation: the two events are returned
\* and the continuation is not followed
C11_Witness ==
    /\ op = "get_user_nft_activity"
    /\ Returned
    /\ Len(Requests) = 1
    /\ Responses[1].r.body =
           PyDict([activities |-> PyList(<<"a2", "a3">>), continuation |-> PyStr("u2")])
    /\ outcome.val = PyList(<<"a2", "a3">>)

(***************************************************************************)
(* C12: get_transaction_history raises ValueError and issues no HTTP       *)
(* request whenever page is not a non-negative integer, limit is not an    *)
(* integer in 1..500, sort_order is not 'asc' or 'desc' (whatever the      *)
(* case) or timestamp_gte is given and is not a non-negative integer; with *)
(* valid inputs it issues exactly one request for the requested page and   *)
(* returns the 'data' list of that page.                                   *)
(***************************************************************************)
\* an argument the claim calls invalid
InvalidHistoryArguments ==
    \/ args.page.t # "int" \/ args.page.v.neg
    \/ args.limit.t # "int" \/ args.limit.v.neg
    \/ args.limit.v.hi # 0 \/ args.limit.v.lo < 1 \/ args.limit.v.lo > 500
    \/ args.sort_order \notin {"asc", "desc", "ASC", "DESC"}
    \/ args.timestamp_gte # PyNone
          /\ (args.timestamp_gte.t # "int" \/ args.timestamp_gte.v.neg)

\* the request for the page asked for, and nothing else
OneHistoryRequest ==
    /\ Len(Requests) = 1
    /\ Requests[1].api = "insight"
    /\ Requests[1].params[1].page = args.page
    /\ Requests[1].params[1].limit = args.limit
    /\ Requests[1].params[1].sort_order \in {"asc", "desc"}

HistoryReturnsData ==
    Returned =>
       /\ Len(Responses) = 1
       /\ Responses[1].r.kind = "ok"
       /\ outcome.val = Responses[1].r.body.v["data"]

NeededCredential ==
    CASE op \in {"get_nft_collection_stats", "get_nft_activity", "get_user_nft_activity",
                 "get_trending_collections"} -> "MAGIC_EDEN_API_KEY"
      [] op \in {"get_monad_erc20_balances", "get_contract_interactions",
                 "get_user_nft_transactions"} -> "ZERION_API_KEY"
      [] op \in {"get_abi_from_insight", "get_transaction_history"} -> "THIRDWEB_CLIENT_ID"
      [] op = "read_contract" /\ Falsy(args.abi) -> "THIRDWEB_CLIENT_ID"
      [] OTHER -> "none"

CredentialMissing == NeededCredential # "none" /\ ~environ[NeededCredential]

\* the requests that are no probe of the node's connection
RequestsBeyondProbes == SelectSeq(Requests, LAMBDA e : e.url # "is_connected")

\* the last probe of the connection gate was answered "not connected"
GateFailed ==
    /\ Responses # <<>>
    /\ Responses[Len(Responses)].r = PyBool(FALSE)

\* arguments the operation rejects by itself
ArgumentsRejected ==
    CASE op = "get_transaction_history" ->
            ~IsAddress(args.address) \/ InvalidHistoryArguments
      [] op = "get_abi_from_insight" -> ~IsAddress(args.contract_address)
      [] op = "get_user_nft_activity" -> ~IsAddress(args.user_address)
      [] op = "get_trending_collections" ->
            \/ args.period \notin {"1d", "7D"}
            \/ args.sort_by \notin {"sales", "Volume"}
            \/ args.limit \notin {PyInt(FALSE, 0, 20), PyStr("12")}
      [] op = "read_contract" ->
            ~IsAddress(args.contract_address) \/ (~Falsy(args.abi) /\ args.abi.t # "list")
      [] OTHER -> InvalidArguments

\* an operation whose credential is there, or that needs none, ends in a
\* ValueError before any request of its own only for its arguments
NotAffectedByOthers ==
    /\ ~CredentialMissing
    /\ pc = "done"
    /\ outcome.kind = "ValueError"
    /\ RequestsBeyondProbes = <<>>
    => ArgumentsRejected

\* the claim as it is worded
C13_AsStated ==
    /\ CredentialMissing =>
          /\ RequestsBeyondProbes = <<>>
          /\ pc = "done" => outcome.kind = "ValueError"
    /\ NotAffectedByOthers

\* C13 as the code has it: get_contract_interactions and read_contract pass the
\* connection gate before they look for the credential, and end in
\* ConnectionError when the gate fails
C13_CredentialBeforeHttp ==
    /\ CredentialMissing =>
          /\ RequestsBeyondProbes = <<>>
          /\ pc = "done" =>
                \/ outcome.kind = "ValueError"
                \/ /\ outcome.kind = "ConnectionError"
                   /\ op \in {"get_contract_interactions", "read_contract"}
                   /\ w3_instance = None \/ GateFailed
    /\ NotAffectedByOthers

\* get_contract_interactions without ZERION_API_KEY: the gate's probe is answered,
\* then ValueError, and Zerion is never asked
C13_Witness ==
    /\ op = "get_contract_interactions"
    /\ ~environ["ZERION_API_KEY"]
    /\ pc = "done"
    /\ outcome.kind = "ValueError"
    /\ IsAddress(args.wallet_address)
    /\ Len(Requests) = 1
    /\ Responses = <<RespEvent(PyBool(TRUE))>>

(***************************************************************************)
(* C14: when a contract ABI is fetched (get_abi_from_insight, and          *)
(* read_contract called without an ABI), an HTTP 404 answer results in     *)
(* FileNotFoundError, any other HTTP error status in ConnectionError, and  *)
(* in both cases no contract call is made afterwards.                      *)
(***************************************************************************)
\* the answers to the requests for an ABI
AbiAnswers ==
    { events[i].r : i \in { j \in 2..Len(events) :
                               /\ events[j].k = "resp"
                               /\ events[j - 1].k = "req"
                               /\ events[j - 1].api = "insight" } }

ContractCalls == SelectSeq(Requests, LAMBDA e : e.url = "eth.call")

C14_AbiFetchStatus ==
    op \in {"get_abi_from_insight", "read_contract"} =>
       \A r \in AbiAnswers :
          r.kind = "status" =>
             /\ pc = "done"
             /\ outcome.kind = IF r.code = 404 THEN "FileNotFoundError"
                                ELSE "ConnectionError"
             /\ ContractCalls = <<>>

\* read_contract without an ABI, Insight answers 404
C14_Witness ==
    /\ op = "read_contract"
    /\ args.abi = PyNone
    /\ args.function_name = "balanceOf"
    /\ [kind |-> "status", code |-> 404] \in AbiAnswers
    /\ outcome.kind = "FileNotFoundError"
    /\ ContractCalls = <<>>

(***************************************************************************)
(* C15: the server registers its tools and starts serving only if          *)
(* MONAD_TESTNET_RPC_URL is set and the shared Web3 handle was             *)
(* initialised, and otherwise exits with status 1 before any tool is       *)
(* registered; a missing MAGIC_EDEN_API_KEY, ZERION_API_KEY or             *)
(* THIRDWEB_CLIENT_ID only produces a warning and never keeps the server   *)
(* from starting.                                                          *)
(***************************************************************************)
NodeReady == environ["MONAD_TESTNET_RPC_URL"] /\ w3_instance # None

C15_AsStated ==
    /\ process.tools # {} \/ process.stage \in {"registered", "serving"} => NodeReady
    /\ process.stage \in {"guard", "main"} /\ ~NodeReady => process.tools = {}
    /\ process.stage = "exited" /\ ~NodeReady =>
          process.status = "exit 1" /\ process.tools = {}
    \* with the URL and the handle, the start is never given up before the tools
    \* are registered
    /\ process.stage = "exited" /\ process.tools = {} => ~NodeReady

(***************************************************************************)
(* C16: get_transaction and get_block raise FileNotFoundError whenever the *)
(* node reports that the item does not exist, both when the lookup returns *)
(* no data (None) and when it raises TransactionNotFound / BlockNotFound;  *)
(* ConnectionError is raised only for other failures of the lookup.        *)
(***************************************************************************)
\* the answers of the node to the lookups of the invocation
LookupAnswers ==
    { events[i].r : i \in { j \in 2..Len(events) :
                               /\ events[j].k = "resp"
                               /\ events[j - 1].k = "req"
                               /\ events[j - 1].url \in {"eth.get_transaction",
                                                         "eth.get_block"} } }

C16_AsStated ==
    op \in {"get_transaction", "get_block"} /\ pc = "done" =>
       \A r \in LookupAnswers :
          /\ r.kind \in {"none", "notfound"} => outcome.kind = "FileNotFoundError"
          /\ outcome.kind = "ConnectionError" => r.kind = "error"

(***************************************************************************)
(* C17: when an API answers with a success status but a body of           *)
(* unexpected shape (no parsable ABI list, no 'data' list, no              *)
(* 'collections' or 'activities' key, or a non-object body),               *)
(* get_abi_from_insight, get_transaction_history,                          *)
(* get_nft_collection_stats, get_nft_activity, get_user_nft_activity and   *)
(* get_trending_collections raise ValueError, not ConnectionError.         *)
(***************************************************************************)
HasList(body, key) ==
    body.t = "dict" /\ key \in DOMAIN body.v /\ body.v[key].t = "list"

\* the body is not of the shape the operation expects
UnexpectedShape(body) ==
    CASE op = "get_abi_from_insight" ->
            body.t # "list" /\ ~HasList(body, "result") /\ ~HasList(body, "abi")
      [] op = "get_transaction_history" -> ~HasList(body, "data")
      [] op \in {"get_nft_collection_stats", "get_trending_collections"} ->
            body.t # "dict" \/ "collections" \notin DOMAIN body.v
      [] op \in {"get_nft_activity", "get_user_nft_activity"} ->
            body.t # "dict" \/ "activities" \notin DOMAIN body.v
      [] OTHER -> FALSE

AbiInUse == IF Falsy(args.abi) THEN loc.abi ELSE args.abi

\* the invocation has passed the gate and the address check and has a usable ABI
HasUsableAbi == validated /\ AbiInUse.t = "list" /\ Len(AbiInUse.v) > 0

FunctionInAbi == \E i \in 1..Len(AbiInUse.v) : AbiInUse.v[i].v = args.function_name

\* the answers of the node to the contract calls of the invocation
CallAnswered ==
    { events[i].r : i \in { j \in 2..Len(events) :
                               /\ events[j].k = "resp"
                               /\ events[j - 1].k = "req"
                               /\ events[j - 1].url = "eth.call" } }

C18_AsStated ==
    op = "read_contract" /\ HasUsableAbi =>
       /\ ~FunctionInAbi =>
             /\ ContractCalls = <<>>
             /\ pc = "done" => outcome.kind = "ValueError"
       /\ pc = "done" /\ outcome.kind = "ConnectionError"
             => \E r \in CallAnswered : r.kind = "error"

(***************************************************************************)
(* C19: read_contract fetches an ABI only when needed: called with a       *)
(* non-empty ABI it issues no request to the ABI service; called with no   *)
(* ABI or an empty one it issues exactly one ABI request, and the contract *)
(* call happens only after that request succeeded with a non-empty ABI     *)
(* list (an empty fetched ABI gives ValueError and no contract call).      *)
(***************************************************************************)
AbiRequests == SelectSeq(Requests, LAMBDA e : e.api = "insight")

\* the ABI list an answer of the ABI service carries
FetchedAbi(r) ==
    IF r.kind # "ok" THEN PyNone
    ELSE IF r.body.t = "list" THEN r.body
    ELSE IF HasList(r.body, "result") THEN r.body.v["result"]
    ELSE IF HasList(r.body, "abi") THEN r.body.v["abi"]
    ELSE PyNone

\* what the claim says of a call that is given an ABI, and of the contract call
\* of one that is not
FetchWhenNeeded ==
    /\ ~Falsy(args.abi) => AbiRequests = <<>>
    /\ Falsy(args.abi) /\ ContractCalls # <<>> =>
          \E r \in AbiAnswers : FetchedAbi(r).t = "list" /\ Len(FetchedAbi(r).v) > 0
    /\ \A r \in AbiAnswers :
          FetchedAbi(r) = EmptyList =>
             /\ pc = "done"
             /\ outcome.kind = "ValueError"
             /\ ContractCalls = <<>>

\* the claim as it is worded: one ABI request whenever no ABI is given
C19_AsStated ==
    op = "read_contract" =>
       /\ FetchWhenNeeded
       /\ Falsy(args.abi) /\ pc = "done" => Len(AbiRequests) = 1

\* C19 as the code has it: the ABI request is issued once the connection gate
\* and the address check have passed and THIRDWEB_CLIENT_ID is set, and not
\* otherwise
C19_FetchOnlyWhenNeeded ==
    op = "read_contract" =>
       /\ FetchWhenNeeded
       /\ Len(AbiRequests) <= 1
       /\ Falsy(args.abi) =>
             Len(AbiRequests) =
                IF validated /\ environ["THIRDWEB_CLIENT_ID"] THEN 1 ELSE 0

\* no ABI given: the probe, the ABI request, then the contract call
C19_Witness ==
    /\ op = "read_contract"
    /\ args.abi = PyNone
    /\ Returned
    /\ Len(Requests) = 3
    /\ Requests[2].api = "insight"
    /\ Requests[3].url = "eth.call"
    /\ AbiOfToken \in { FetchedAbi(r) : r \in AbiAnswers }

====
